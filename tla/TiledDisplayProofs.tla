------------------------- MODULE TiledDisplayProofs -------------------------
(***************************************************************************)
(* Theorems about TiledDisplay, for any displays, modes and ports, and for *)
(* any values that the user may give to the parameters, however often.     *)
(***************************************************************************)
EXTENDS TiledDisplay, NumberLemmas, TLAPS

-----------------------------------------------------------------------------
(* The inductive invariant.  After a setup that worked, what it left is    *)
(* what the parameters as they are now say: they were valid, and the block *)
(* that is clipped has been filled in without changing what they mean.     *)

TypesOK == Typed(params) /\ gpus \in Seq(Nat) /\ handed \in BOOLEAN

Valid == Validation = "ok" /\ params.block_type = "gpu"

PortsExist == \A s \in DOMAIN screens : \A n \in DOMAIN screens[s] :
                  \A p \in DOMAIN screens[s][n].scanouts : ~(p >= Ports)

LaidOut == Done => /\ Valid
                   /\ blocks = Rects
                   /\ screens = Screens(Rects)
                   /\ effective = Effective(Screens(Rects), Rects)
                   /\ PortsExist

IInv == TypeOK /\ TypesOK /\ LaidOut

LEMMA ParameterTypes ==
    ASSUME NEW p, Typed(p)
    PROVE  /\ p.block_type \in {"gpu", "quadroplex"} /\ p.combine_displays \in BOOLEAN
           /\ p.num_blocks \in Pair /\ p.block_display_layout \in Pair
           /\ p.group_blocks \in Pair \cup {None2} /\ p.tile_resolution \in Pair \cup {None2}
           /\ p.clip_last_block \in {<<>>} \cup ((Int \cup {None}) \X (Int \cup {None}))
           /\ p.remap_display_outputs \in Seq(Int) \cup {<<None>>}
           /\ p.display_mode \in [kind : {"default"}] \cup [kind : {"alias"}, alias : STRING]
                                 \cup [kind : {"size", "rate"}, size : Pair]
           /\ p.rotate \in STRING /\ p.bezels \in STRING /\ p.stereo_mode \in STRING
BY DEF Typed, ParamType

\* Giving one parameter a value of its type keeps the types of all.
LEMMA TypedExcept ==
    ASSUME NEW p, Typed(p), NEW name \in DOMAIN ParamType, NEW value \in ParamType[name]
    PROVE  Typed([p EXCEPT ![name] = value])
<1> DEFINE q == [p EXCEPT ![name] = value]
<1>1. DOMAIN p = DOMAIN ParamType
  BY DEF Typed
<1>2. q = [n \in DOMAIN ParamType |-> IF n = name THEN value ELSE p[n]]
  BY <1>1
<1> HIDE DEF q
<1>3. \A n \in DOMAIN ParamType : q[n] \in ParamType[n]
  BY <1>2 DEF Typed
<1>4. q = [n \in DOMAIN ParamType |-> q[n]]
  BY <1>2
<1>5. Typed(q)
  BY <1>3, <1>4 DEF Typed
<1> QED
  BY <1>5 DEF q

\* What Validation says of the parameters of a block of one GPU.
LEMMA ValidParameters ==
    ASSUME Typed(params), Valid
    PROVE  /\ params.num_blocks[1] \in Nat \ {0} /\ params.num_blocks[2] \in Nat \ {0}
           /\ Layout \in {<<1, 1>>, <<1, 2>>, <<2, 1>>}
           /\ \A d \in 1..2 : Clip(d) \in 1..Layout[d]
           /\ params.stereo_mode = "passive" => Layout = <<1, 1>>
           /\ ValidRemap /\ ValidGpus /\ ValidTile /\ ModeError = "ok"
           /\ params.combine_displays => params.group_blocks # None2
           /\ params.group_blocks # None2 => ValidBlocks
<1> USE ParameterTypes
<1>1. /\ ValidBlocks /\ ValidStereo /\ ValidRemap /\ ValidClip /\ ValidGpus
      /\ ModeError = "ok" /\ ValidTile
      /\ params.combine_displays => params.group_blocks # None2
  BY DEF Valid, Validation
<1>2. params.num_blocks \in Pair /\ Layout \in Pair
  BY DEF Layout
<1>3. /\ params.num_blocks[1] \in Nat \ {0} /\ params.num_blocks[2] \in Nat \ {0}
      /\ Layout[1] \in Nat \ {0} /\ Layout[2] \in Nat \ {0}
  BY <1>1, <1>2 DEF ValidBlocks, Pair
<1>4. Layout[1] * Layout[2] \in 1..2
  BY <1>1 DEF ValidBlocks, Valid, Product
<1>5. Layout \in {<<1, 1>>, <<1, 2>>, <<2, 1>>}
  <2>1. Layout = <<Layout[1], Layout[2]>>
    BY <1>2 DEF Pair
  <2>2. Layout[1] <= 2 /\ Layout[2] <= 2
    <3>1. ASSUME NEW x \in Nat \ {0}, NEW y \in Nat \ {0}
          PROVE  x <= x * y /\ y <= x * y
      OBVIOUS
    <3> QED
      BY <1>3, <1>4, <3>1
  <2>3. Layout[1] \in 1..2 /\ Layout[2] \in 1..2
    BY <1>3, <2>2
  <2>4. ~(Layout[1] = 2 /\ Layout[2] = 2)
    BY <1>4
  <2> QED
    BY <2>1, <2>3, <2>4
<1>6. \A d \in 1..2 : Clip(d) \in 1..Layout[d]
  BY <1>1, <1>3, TiledDisplayAssumption DEF ValidClip, Clip
<1> QED
  BY <1>1, <1>3, <1>5, <1>6 DEF ValidStereo

-----------------------------------------------------------------------------
(* Filling in the block that is clipped changes nothing.                   *)

LEMMA ClipFilledParameters ==
    ASSUME Typed(params), Valid
    PROVE  /\ Typed(ClipFilled)
           /\ \A name \in DOMAIN ParamType \ {"clip_last_block"} : ClipFilled[name] = params[name]
           /\ \/ ClipFilled.clip_last_block = params.clip_last_block /\ params.clip_last_block = <<>>
              \/ params.clip_last_block # <<>> /\ ClipFilled.clip_last_block = <<Clip(1), Clip(2)>>
<1>1. ASSUME params.clip_last_block = <<>>
      PROVE  ClipFilled = params
  BY <1>1 DEF ClipFilled
<1>2. CASE params.clip_last_block # <<>>
  <2>1. Clip(1) \in Int /\ Clip(2) \in Int
    BY ValidParameters
  <2>2. <<Clip(1), Clip(2)>> \in ParamType["clip_last_block"]
    BY <2>1 DEF ParamType
  <2>3. ClipFilled = [params EXCEPT !["clip_last_block"] = <<Clip(1), Clip(2)>>]
    BY <1>2 DEF ClipFilled
  <2>4. "clip_last_block" \in DOMAIN ParamType /\ DOMAIN params = DOMAIN ParamType
    BY DEF ParamType, Typed
  <2>5. Typed(ClipFilled)
    BY <2>2, <2>3, <2>4, TypedExcept
  <2> QED
    BY <2>3, <2>4, <2>5, <1>2
<1> QED
  BY <1>1, <1>2

\* A step that changes nothing but what it fills in.
Filled == /\ Typed(params) /\ Valid
          /\ params' \in {params, ClipFilled} /\ gpus' = gpus

LEMMA FilledParameters ==
    ASSUME Filled
    PROVE  /\ Typed(params)'
           /\ params'.block_type = params.block_type /\ params'.num_blocks = params.num_blocks
           /\ params'.block_display_layout = params.block_display_layout
           /\ params'.group_blocks = params.group_blocks
           /\ params'.combine_displays = params.combine_displays
           /\ params'.rotate = params.rotate /\ params'.bezels = params.bezels
           /\ params'.stereo_mode = params.stereo_mode
           /\ params'.remap_display_outputs = params.remap_display_outputs
           /\ params'.display_mode = params.display_mode
           /\ params'.tile_resolution = params.tile_resolution
           /\ \A d \in 1..2 : Clip(d)' = Clip(d)
           /\ ValidClip'
<1>1. ASSUME params' = params
      PROVE  Typed(params)' /\ \A d \in 1..2 : Clip(d)' = Clip(d) /\ ValidClip'
  BY <1>1 DEF Filled, Clip, Layout, Typed, ValidClip, Valid, Validation
<1>2. ASSUME params' = ClipFilled
      PROVE  /\ Typed(params)'
             /\ \A name \in DOMAIN ParamType \ {"clip_last_block"} : params'[name] = params[name]
             /\ \A d \in 1..2 : Clip(d)' = Clip(d)
             /\ ValidClip'
  <2>1. /\ Typed(params') /\ \A name \in DOMAIN ParamType \ {"clip_last_block"} : params'[name] = params[name]
        /\ \/ params'.clip_last_block = params.clip_last_block /\ params.clip_last_block = <<>>
           \/ params.clip_last_block # <<>> /\ params'.clip_last_block = <<Clip(1), Clip(2)>>
    BY <1>2, ClipFilledParameters DEF Filled
  <2>2. params'.block_display_layout = params.block_display_layout
    BY <2>1 DEF ParamType
  <2>3. Clip(1) \in 1..Layout[1] /\ Clip(2) \in 1..Layout[2] /\ None \notin Int
    BY ValidParameters, TiledDisplayAssumption DEF Filled
  <2>4. CASE params'.clip_last_block = <<>>
    BY <2>1, <2>2, <2>4 DEF Clip, Layout, ValidClip
  <2>5. CASE params'.clip_last_block = <<Clip(1), Clip(2)>> /\ params.clip_last_block # <<>>
    <3>1. \A d \in 1..2 : params'.clip_last_block[d] = Clip(d) /\ Clip(d) # None
      BY <2>3, <2>5
    <3>2. params'.clip_last_block # <<>>
      BY <2>5
    <3>3. \A d \in 1..2 : Clip(d)' = Clip(d)
      BY <3>1, <3>2 DEF Clip
    <3>4. ValidClip'
      BY <2>2, <2>3, <3>1, <3>2 DEF ValidClip, Layout
    <3> QED
      BY <2>1, <3>3, <3>4 DEF Typed
  <2> QED
    BY <2>1, <2>4, <2>5 DEF Typed
<1>3. \A name \in DOMAIN ParamType \ {"clip_last_block"} : params'[name] = params[name]
  BY <1>2 DEF Filled
<1> QED
  BY <1>1, <1>2, <1>3 DEF Filled, ParamType

LEMMA FilledLayout ==
    ASSUME Filled
    PROVE  /\ Valid'
           /\ Rects' = Rects
           /\ Screens(Rects)' = Screens(Rects)
           /\ Effective(Screens(Rects), Rects)' = Effective(Screens(Rects), Rects)
<1> USE FilledParameters
<1>1. /\ Layout' = Layout /\ NumBlocks' = NumBlocks /\ ForceBezels' = ForceBezels
      /\ DesktopBezels' = DesktopBezels /\ Upright' = Upright /\ Edges' = Edges
      /\ ModeError' = ModeError /\ MatchedMode' = MatchedMode
  BY DEF Layout, NumBlocks, Product, ForceBezels, DesktopBezels, Upright, Edges, ModeError, MatchedMode
<1>2. ASSUME NEW side
      PROVE  Bezel(side)' = Bezel(side)
  BY <1>1 DEF Bezel
<1>3. ASSUME NEW b
      PROVE  /\ Row(b)' = Row(b) /\ Col(b)' = Col(b)
             /\ SubCols(b)' = SubCols(b) /\ SubRows(b)' = SubRows(b)
  BY <1>1 DEF Row, Col, SubCols, SubRows
<1>4. ASSUME NEW b, NEW line, NEW atStart, NEW i
      PROVE  HasBezel(b, line, atStart, i)' = HasBezel(b, line, atStart, i)
  BY <1>1, <1>3 DEF HasBezel
<1>5. ASSUME NEW b, NEW edge, NEW n, NEW tile, NEW near, NEW far
      PROVE  Line(b, edge, n, tile, near, far)' = Line(b, edge, n, tile, near, far)
  BY <1>1, <1>4 DEF Line
<1>6. ASSUME NEW b
      PROVE  /\ LineX(b)' = LineX(b) /\ LineY(b)' = LineY(b)
             /\ Framebuffer(b)' = Framebuffer(b) /\ Area(b)' = Area(b)
             /\ Scanouts(b)' = Scanouts(b) /\ GroupStart(b)' = GroupStart(b)
  <2>1. LineX(b)' = LineX(b) /\ LineY(b)' = LineY(b)
    BY <1>1, <1>2, <1>3, <1>5 DEF LineX, LineY
  <2>2. Framebuffer(b)' = Framebuffer(b)
    BY <2>1 DEF Framebuffer
  <2>3. Area(b)' = Area(b)
    BY <1>1, <2>2 DEF Area, Turned
  <2>4. Scanouts(b)' = Scanouts(b)
    <3>1. ASSUME NEW i
          PROVE  PortOf(i)' = PortOf(i)
      BY DEF PortOf
    <3>2. Used(b)' = Used(b) /\ \A i : Cell(b, i)' = Cell(b, i)
      BY <1>3 DEF Used, Cell
    <3>3. ASSUME NEW p
          PROVE  OutputOf(b, p)' = OutputOf(b, p)
      BY <3>1, <3>2 DEF OutputOf
    <3>4. {PortOf(i) : i \in 0..(Used(b) - 1)}' = {PortOf(i) : i \in 0..(Used(b) - 1)}
      BY <3>1, <3>2
    <3> QED
      BY <2>1, <3>2, <3>3, <3>4 DEF Scanouts
  <2>5. GroupStart(b)' = GroupStart(b)
    BY <1>3 DEF GroupStart
  <2> QED
    BY <2>1, <2>2, <2>3, <2>4, <2>5
<1>7. ASSUME NEW area
      PROVE  Placed(area)' = Placed(area)
  BY <1>3 DEF Placed
<1>8. Rects' = Rects
  BY <1>1, <1>6, <1>7 DEF Rects
<1>9. ASSUME NEW s
      PROVE  GpusBefore(s)' = GpusBefore(s)
  BY DEF Filled, GpusBefore
<1>10. ASSUME NEW b, NEW rects
       PROVE  NewScreen(b, rects)' = NewScreen(b, rects)
  <2>1. Position(b, rects)' = Position(b, rects)
    BY <1>6 DEF Position
  <2> QED
    BY <1>6, <2>1 DEF NewScreen
<1>11. Screens(Rects)' = Screens(Rects)
  BY <1>8, <1>9, <1>10 DEF Screens, Filled
<1>12. ASSUME NEW scrs, NEW rects
       PROVE  Effective(scrs, rects)' = Effective(scrs, rects)
  <2>1. ASSUME NEW b
        PROVE  ServerOf(b)' = ServerOf(b)
    BY <1>9 DEF ServerOf, Filled
  <2> QED
    BY <1>6, <1>9, <2>1 DEF Effective
<1>13. Effective(Screens(Rects), Rects)' = Effective(Screens(Rects), Rects)
  BY <1>8, <1>11, <1>12
<1>14. Valid'
  <2>1. ValidBlocks /\ ValidStereo /\ ValidRemap /\ ValidGpus /\ ValidTile
    BY DEF Filled, Valid, Validation
  <2>2. ValidBlocks'
    BY <2>1, <1>1 DEF ValidBlocks, Product
  <2>3. ValidStereo'
    BY <2>1, <1>1 DEF ValidStereo
  <2>4. ValidRemap'
    BY <2>1, <1>1 DEF ValidRemap, Product
  <2>5. ValidGpus'
    BY <2>1, <1>1 DEF ValidGpus, TotalGpus, Filled
  <2>6. ValidTile'
    BY <2>1, <1>1 DEF ValidTile
  <2>7. ValidClip'
    OBVIOUS
  <2>8. Validation'
        = IF params.combine_displays /\ \E s \in DOMAIN gpus : gpus[s] # gpus[1] THEN "ValueError"
          ELSE IF params.combine_displays /\ params.group_blocks = None2 THEN "TypeError"
          ELSE IF params.combine_displays /\ gpus[1] # Product(params.group_blocks) THEN "ValueError"
          ELSE IF ModeError # "ok" THEN ModeError
          ELSE "ok"
    BY <2>2, <2>3, <2>4, <2>5, <2>6, <2>7, <1>1 DEF Validation, Filled, Product
  <2> QED
    BY <2>8 DEF Filled, Valid, Validation
<1> QED
  BY <1>8, <1>11, <1>13, <1>14


-----------------------------------------------------------------------------
(* The invariant is inductive.                                             *)

LEMMA ParsedTyped ==
    ASSUME NEW p, Typed(p)
    PROVE  Typed(Parsed(p))
<1>1. "group_blocks" \in DOMAIN ParamType /\ DOMAIN p = DOMAIN ParamType
  BY DEF Typed, ParamType
<1>2. p.num_blocks \in ParamType["group_blocks"]
  BY ParameterTypes DEF ParamType
<1>3. Typed([p EXCEPT !["group_blocks"] = p.num_blocks])
  BY <1>1, <1>2, TypedExcept
<1> QED
  BY <1>3 DEF Parsed

LEMMA InitInv == Init => IInv
<1> SUFFICES ASSUME Init
             PROVE  IInv
  OBVIOUS
<1>1. PICK d \in Displays : /\ params = Parsed(d.params) /\ gpus = d.gpus
                            /\ handed = FALSE /\ outcome = "none" /\ changes = 0
  BY DEF Init
<1>2. Typed(d.params) /\ d.gpus \in Seq(Nat) /\ MaxChanges \in Nat
  BY TiledDisplayAssumption
<1>3. Typed(params)
  BY <1>1, <1>2, ParsedTyped
<1>4. handed \in BOOLEAN /\ gpus \in Seq(Nat)
  BY <1>1, <1>2
<1>5. changes \in 0..MaxChanges
  BY <1>1, <1>2
<1>6. TypeOK
  BY <1>1, <1>5 DEF TypeOK
<1>7. LaidOut
  BY <1>1 DEF LaidOut, Done
<1> QED
  BY <1>3, <1>4, <1>6, <1>7 DEF IInv, TypesOK

Outcomes == {"none", "ok", "ValueError", "TypeError", "IndexError", "UnboundLocalError"}

LEMMA SetupKeeps ==
    ASSUME IInv, SetupXServers, gpus' = gpus
    PROVE  /\ Typed(params)'
           /\ outcome' \in Outcomes
           /\ LaidOut'
           /\ IF outcome' = "ok" THEN screens' = Screens(Rects) ELSE screens' = screens
<1> DEFINE scrs == Screens(Rects)
<1>1. /\ outcome' = SetupError(scrs)
      /\ params' = IF Validation = "ok" THEN ClipFilled ELSE params
      /\ IF outcome' = "ok"
         THEN /\ screens' = scrs /\ blocks' = Rects /\ effective' = Effective(scrs, Rects)
         ELSE UNCHANGED <<screens, blocks, effective>>
  BY DEF SetupXServers
<1>2. outcome' \in Outcomes
  <2>1. ModeError \in {"ok", "ValueError", "IndexError"}
    BY ParameterTypes DEF ModeError, IInv, TypesOK
  <2>2. Validation \in {"ok", "ValueError", "TypeError", "IndexError"}
    BY <2>1 DEF Validation
  <2> QED
    BY <1>1, <2>2 DEF SetupError, Outcomes
<1>3. Typed(params)'
  <2>1. CASE Validation # "ok"
    BY <2>1, <1>1 DEF IInv, TypesOK, Typed
  <2>2. CASE Validation = "ok"
    <3>1. CASE params.clip_last_block = <<>>
      BY <1>1, <2>2, <3>1 DEF ClipFilled, IInv, TypesOK, Typed
    <3>2. CASE params.clip_last_block # <<>>
      <4>1. ASSUME NEW d \in 1..2
            PROVE  Clip(d) \in Int \cup {None}
        <5>1. params.clip_last_block \in (Int \cup {None}) \X (Int \cup {None}) /\ Layout \in Pair
          BY <3>2, ParameterTypes DEF IInv, TypesOK, Layout
        <5> QED
          BY <5>1 DEF Clip, Pair
      <4>2. <<Clip(1), Clip(2)>> \in ParamType["clip_last_block"]
        BY <4>1 DEF ParamType
      <4>3. "clip_last_block" \in DOMAIN ParamType
        BY DEF ParamType
      <4>4. ClipFilled = [params EXCEPT !["clip_last_block"] = <<Clip(1), Clip(2)>>]
        BY <3>2 DEF ClipFilled
      <4>5. Typed(ClipFilled)
        BY <4>2, <4>3, <4>4, TypedExcept DEF IInv, TypesOK
      <4> QED
        BY <1>1, <2>2, <4>5 DEF Typed
    <3> QED
      BY <3>1, <3>2
  <2> QED
    BY <2>1, <2>2
<1>4. ASSUME outcome' = "ok"
      PROVE  LaidOut'
  <2>1. /\ Validation = "ok" /\ params.block_type # "quadroplex"
        /\ \A s \in DOMAIN scrs : \A n \in DOMAIN scrs[s] : ~BadScanout(scrs[s][n])
    BY <1>1, <1>4 DEF SetupError
  <2>2. Valid
    BY <2>1, ParameterTypes DEF Valid, IInv, TypesOK
  <2>3. Filled
    BY <1>1, <2>1, <2>2 DEF Filled, IInv, TypesOK
  <2>4. /\ Valid' /\ Rects' = Rects /\ Screens(Rects)' = scrs
        /\ Effective(Screens(Rects), Rects)' = Effective(scrs, Rects)
    BY <2>3, FilledLayout
  <2>5. screens' = scrs /\ blocks' = Rects /\ effective' = Effective(scrs, Rects)
    BY <1>1, <1>4
  <2>6. PortsExist'
    <3>1. \A s \in DOMAIN scrs : \A n \in DOMAIN scrs[s] :
              \A p \in DOMAIN scrs[s][n].scanouts : ~(p >= Ports)
      BY <2>1 DEF BadScanout
    <3> QED
      BY <2>5, <3>1 DEF PortsExist
  <2> QED
    BY <2>4, <2>5, <2>6 DEF LaidOut
<1>5. ASSUME outcome' # "ok"
      PROVE  LaidOut'
  BY <1>5 DEF LaidOut, Done
<1> QED
  BY <1>1, <1>2, <1>3, <1>4, <1>5

LEMMA SetParamKeeps ==
    ASSUME IInv, NEW name \in DOMAIN Values, NEW value \in Values[name], SetParam(name, value)
    PROVE  IInv'
<1>1. \E n \in DOMAIN ParamType : value \in ParamType[n] /\ params' = [params EXCEPT ![n] = value]
  <2>1. CASE name = "framelock"
    <3>1. "bezels" \in DOMAIN ParamType
      BY DEF ParamType
    <3>2. value \in ParamType["bezels"]
      BY <2>1, TiledDisplayAssumption
    <3>3. params' = [params EXCEPT !["bezels"] = value]
      BY <2>1 DEF SetParam
    <3> QED
      BY <3>1, <3>2, <3>3
  <2>2. CASE name # "framelock"
    BY <2>2, TiledDisplayAssumption DEF SetParam
  <2> QED
    BY <2>1, <2>2
<1>2. Typed(params')
  <2>1. PICK n \in DOMAIN ParamType : value \in ParamType[n] /\ params' = [params EXCEPT ![n] = value]
    BY <1>1
  <2>2. Typed([params EXCEPT ![n] = value])
    BY <2>1, TypedExcept DEF IInv, TypesOK
  <2> QED
    BY <2>1, <2>2
<1>3. Typed(params)'
  BY <1>2 DEF Typed
<1>4. changes \in 0..MaxChanges /\ changes < MaxChanges /\ changes' = changes + 1 /\ outcome' = "none"
      /\ gpus' = gpus /\ handed' = handed /\ screens' = screens
  BY DEF SetParam, IInv, TypeOK
<1>5. TypeOK' /\ TypesOK'
  BY <1>3, <1>4, TiledDisplayAssumption DEF IInv, TypeOK, TypesOK
<1>6. LaidOut'
  BY <1>4 DEF LaidOut, Done
<1> QED
  BY <1>5, <1>6 DEF IInv

\* The screens of each X server are numbered from 0.
LEMMA ScreensDomain ==
    ASSUME NEW rects, NEW s \in DOMAIN gpus
    PROVE  DOMAIN Screens(rects)[s] = 0..(gpus[s] - 1)
BY DEF Screens

LEMMA NextKeeps == IInv /\ [Next]_vars => IInv'
<1> SUFFICES ASSUME IInv, [Next]_vars
             PROVE  IInv'
  OBVIOUS
<1>1. CASE DecodeAllocation
  <2>1. SetupXServers /\ gpus' = gpus /\ changes' = changes /\ handed' = (outcome' = "ok")
    BY <1>1 DEF DecodeAllocation
  <2>2. /\ Typed(params)' /\ outcome' \in Outcomes /\ LaidOut'
        /\ IF outcome' = "ok" THEN screens' = Screens(Rects) ELSE screens' = screens
    BY <2>1, SetupKeeps
  <2>3. TypesOK'
    BY <2>1, <2>2 DEF TypesOK, IInv
  <2>4. handed' => \A s \in DOMAIN gpus : DOMAIN Screens(Rects)[s] = 0..(gpus[s] - 1)
    BY ScreensDomain
  <2>5. TypeOK'
    BY <2>1, <2>2, <2>4 DEF TypeOK, IInv, Outcomes
  <2> QED
    BY <2>2, <2>3, <2>5 DEF IInv
<1>2. CASE SetupViz
  <2>1. SetupXServers /\ gpus' = gpus /\ changes' = changes /\ handed' = handed /\ handed
    BY <1>2 DEF SetupViz
  <2>2. /\ Typed(params)' /\ outcome' \in Outcomes /\ LaidOut'
        /\ IF outcome' = "ok" THEN screens' = Screens(Rects) ELSE screens' = screens
    BY <2>1, SetupKeeps
  <2>3. TypesOK'
    BY <2>1, <2>2 DEF TypesOK, IInv
  <2>4. \A s \in DOMAIN gpus : DOMAIN Screens(Rects)[s] = 0..(gpus[s] - 1)
    BY ScreensDomain
  <2>5. TypeOK'
    BY <2>1, <2>2, <2>4 DEF TypeOK, IInv, Outcomes
  <2> QED
    BY <2>2, <2>3, <2>5 DEF IInv
<1>3. CASE Change
  BY <1>3, SetParamKeeps DEF Change
<1>4. CASE UNCHANGED vars
  <2>1. /\ params' = params /\ gpus' = gpus /\ handed' = handed /\ blocks' = blocks
        /\ effective' = effective /\ screens' = screens /\ outcome' = outcome /\ changes' = changes
    BY <1>4 DEF vars
  <2>2. TypeOK' /\ TypesOK' /\ PortsExist' = PortsExist
    BY <2>1 DEF IInv, TypeOK, TypesOK, Typed, PortsExist
  <2>3. LaidOut'
    <3>1. CASE outcome = "ok"
      <4>1. Filled
        BY <2>1, <3>1 DEF Filled, IInv, LaidOut, Done, TypesOK
      <4> QED
        BY <4>1, <2>1, <2>2, <3>1, FilledLayout DEF IInv, LaidOut, Done
    <3>2. CASE outcome # "ok"
      BY <2>1, <3>2 DEF LaidOut, Done
    <3> QED
      BY <3>1, <3>2
  <2> QED
    BY <2>2, <2>3 DEF IInv
<1> QED
  BY <1>1, <1>2, <1>3, <1>4 DEF Next

\* What a setup that worked leaves is what the parameters say, until one is changed: for
\* any displays, GPUs and modes (setupXServers, setParam and __decodeAllocation).
THEOREM TiledInvariance == Spec => []IInv
<1>1. IInv /\ UNCHANGED vars => IInv'
  BY NextKeeps
<1> QED
  BY InitInv, NextKeeps, PTL DEF Spec

\* The variables have their types, and a resource group that was handed out has
\* screens on every one of its X servers (allocate).
THEOREM TiledTypes == Spec => []TypeOK
<1>1. IInv => TypeOK
  BY DEF IInv
<1> QED
  BY <1>1, TiledInvariance, PTL


-----------------------------------------------------------------------------
(* The mode of the displays, and a line of displays.                       *)

Mode == [alias : STRING, width : Nat, height : Nat, refresh : Nat \ {0}, bezel : Bezels]

LEMMA ModeType ==
    ASSUME Typed(params), Valid
    PROVE  MatchedMode \in Mode
<1>1. ModeError = "ok"
  BY ValidParameters
<1>2. DOMAIN Modes = 1..Len(Modes) /\ Len(Modes) \in Nat /\ \A i \in DOMAIN Modes : Modes[i] \in Mode
  <2>1. Modes \in Seq(Mode)
    BY TiledDisplayAssumption DEF Mode
  <2> QED
    BY <2>1
<1>3. IsFiniteSet(DOMAIN Modes) /\ DOMAIN Modes \subseteq Int
  <2>1. IsFiniteSet(1..Len(Modes))
    BY <1>2, FS_Interval
  <2> QED
    BY <1>2, <2>1
<1>4. ASSUME NEW S \in SUBSET (DOMAIN Modes), S # {}
      PROVE  Min(S) \in S
  <2>1. IsFiniteSet(S) /\ S \subseteq Int
    BY <1>2, <1>3, FS_Subset
  <2> QED
    BY <2>1, <1>4, MinProperties
<1>5. ASSUME NEW size, OfSize(size) # {}
      PROVE  BestMatching(size) \in DOMAIN Modes
  <2> DEFINE rates == {Modes[i].refresh : i \in OfSize(size)}
             best == {i \in OfSize(size) : \A j \in OfSize(size) : Modes[i].refresh >= Modes[j].refresh}
  <2>1. OfSize(size) \subseteq DOMAIN Modes
    BY DEF OfSize
  <2>2. IsFiniteSet(OfSize(size))
    BY <2>1, <1>3, FS_Subset
  <2>3. IsFiniteSet(rates)
    <3> DEFINE rate == [i \in DOMAIN Modes |-> Modes[i].refresh]
    <3>1. rates = {rate[i] : i \in OfSize(size)}
      BY <2>1
    <3> HIDE DEF rates, rate
    <3> QED
      BY <2>2, <3>1, ImageFinite
  <2>4. rates # {} /\ rates \subseteq Int
    BY <1>2, <1>5, <2>1 DEF Mode
  <2>5. Max(rates) \in rates /\ \A r \in rates : r <= Max(rates)
    <3> HIDE DEF rates
    <3> QED
      BY <2>3, <2>4, MaxProperties
  <2>6. PICK k \in OfSize(size) : Modes[k].refresh = Max(rates)
    BY <2>5
  <2>7. ASSUME NEW j \in OfSize(size)
        PROVE  Modes[k].refresh >= Modes[j].refresh
    <3>1. Modes[j].refresh \in rates
      OBVIOUS
    <3>2. Modes[j].refresh <= Modes[k].refresh
      BY <2>5, <2>6, <3>1
    <3> QED
      BY <3>2
  <2>8. k \in best
    BY <2>7
  <2>9. best \in SUBSET (DOMAIN Modes) /\ best # {}
    BY <2>8, <2>1
  <2>10. Min(best) \in best
    <3> HIDE DEF best
    <3> QED
      BY <2>9, <1>4
  <2> QED
    BY <2>9, <2>10 DEF BestMatching
<1>6. ASSUME NEW a, WithAlias(a) # {}
      PROVE  Min(WithAlias(a)) \in DOMAIN Modes
  <2>1. WithAlias(a) \in SUBSET (DOMAIN Modes)
    BY DEF WithAlias
  <2> QED
    BY <2>1, <1>4, <1>6
<1> DEFINE m == params.display_mode
<1>7. m.kind \in {"default", "alias", "size", "rate"}
  BY ParameterTypes
<1>8. CASE m.kind = "default"
  BY <1>1, <1>2, <1>6, <1>8 DEF ModeError, MatchedMode
<1>9. CASE m.kind = "alias"
  BY <1>1, <1>2, <1>6, <1>9 DEF ModeError, MatchedMode
<1>10. CASE m.kind = "size"
  BY <1>1, <1>2, <1>5, <1>10 DEF ModeError, MatchedMode
<1>11. CASE m.kind = "rate"
  BY <1>1, <1>11 DEF ModeError
<1> QED
  BY <1>7, <1>8, <1>9, <1>10, <1>11

LEMMA Sizes ==
    ASSUME Typed(params), Valid
    PROVE  /\ MatchedMode.width \in Nat /\ MatchedMode.height \in Nat
           /\ Bezel("left") \in Nat /\ Bezel("right") \in Nat
           /\ Bezel("top") \in Nat /\ Bezel("bottom") \in Nat
BY ModeType DEF Mode, Bezel, Bezels

\* Displays side by side do not overlap, and the line is as long as they need.
LEMMA LineProps ==
    ASSUME NEW b, NEW edge, NEW n \in Nat \ {0}, NEW tile \in Nat, NEW near \in Nat, NEW far \in Nat
    PROVE  LET line == Line(b, edge, n, tile, near, far) IN
           /\ line.length \in Nat
           /\ \A i \in 0..(n - 1) : line.at[i] \in Nat /\ line.at[i] + tile <= line.length
           /\ \A i, j \in 0..(n - 1) : i < j => line.at[i] + tile <= line.at[j]
<1> DEFINE before(i) == IF HasBezel(b, edge[1], edge[2], i)
                        THEN near + (IF DesktopBezels THEN far ELSE 0) ELSE 0
           after(i) == IF HasBezel(b, edge[1], ~edge[2], i) /\ ~DesktopBezels THEN far ELSE 0
           taken == [i \in 0..(n - 1) |-> before(i) + tile + after(i)]
           end(i) == SumFunctionOnSet(taken, 0..(i - 1))
           line == Line(b, edge, n, tile, near, far)
<1>1. line = [at |-> [i \in 0..(n - 1) |-> end(i) + before(i)], length |-> end(n)]
  BY DEF Line
<1>2. \A i : before(i) \in Nat /\ after(i) \in Nat
  OBVIOUS
<1>3. \A i \in 0..(n - 1) : taken[i] = before(i) + tile + after(i) /\ taken[i] \in Nat
  BY <1>2
<1> HIDE DEF before, after, taken, line
<1>4. ASSUME NEW i \in 0..(n - 1)
      PROVE  end(i) \in Nat /\ end(i + 1) = end(i) + taken[i]
  <2>1. \A k \in 0..i : taken[k] \in Int
    BY <1>3
  <2>2. SumFunctionOnSet(taken, 0..i) = SumFunctionOnSet(taken, 0..(i - 1)) + taken[i]
    BY <2>1, SumNext
  <2>3. \A k \in 0..i : taken[k] \in Nat
    BY <1>3
  <2>4. SumFunctionOnSet(taken, 0..(i - 1)) \in Nat
    BY <2>3, SumGrows
  <2>5. (i + 1) - 1 = i
    OBVIOUS
  <2> QED
    BY <2>2, <2>4, <2>5
<1>5. ASSUME NEW i \in 0..n, NEW j \in 0..n, i <= j
      PROVE  end(i) \in Nat /\ end(j) \in Nat /\ end(i) <= end(j)
  <2>1. \A k \in 0..(j - 1) : taken[k] \in Nat
    BY <1>3
  <2>2. i - 1 <= j - 1 /\ i - 1 \in Int /\ j - 1 \in Int
    BY <1>5
  <2> QED
    BY <2>1, <2>2, SumGrows
<1>6. /\ \A i \in 0..(n - 1) : line.at[i] = end(i) + before(i)
      /\ line.length = end(n)
  BY <1>1
<1>7. ASSUME NEW i \in 0..(n - 1)
      PROVE  /\ line.at[i] \in Nat /\ line.at[i] + tile <= end(i + 1)
             /\ end(i + 1) \in Nat /\ end(i) <= line.at[i] /\ end(i) \in Nat
  <2>1. end(i) \in Nat /\ end(i + 1) = end(i) + taken[i]
    BY <1>4
  <2>2. taken[i] = before(i) + tile + after(i) /\ before(i) \in Nat /\ after(i) \in Nat
    BY <1>2, <1>3
  <2>3. line.at[i] = end(i) + before(i)
    BY <1>6
  <2> HIDE DEF end
  <2> QED
    BY <2>1, <2>2, <2>3
<1>8. end(n) \in Nat
  BY <1>5
<1>9. ASSUME NEW i \in 0..(n - 1)
      PROVE  line.at[i] + tile <= end(n)
  <2>1. end(i + 1) <= end(n)
    <3>1. i + 1 \in 0..n /\ n \in 0..n /\ i + 1 <= n
      OBVIOUS
    <3> HIDE DEF end
    <3> QED
      BY <3>1, <1>5
  <2>2. line.at[i] \in Nat /\ line.at[i] + tile <= end(i + 1) /\ end(i + 1) \in Nat
    BY <1>7
  <2> HIDE DEF end
  <2> DEFINE right == line.at[i] + tile
             next == end(i + 1)
             last == end(n)
  <2>3. right \in Int /\ next \in Int /\ last \in Int /\ right <= next /\ next <= last
    BY <2>1, <2>2, <1>8
  <2> HIDE DEF right, next, last
  <2>4. right <= last
    BY <2>3
  <2> QED
    BY <2>4 DEF right, last
<1>10. ASSUME NEW i \in 0..(n - 1), NEW j \in 0..(n - 1), i < j
       PROVE  line.at[i] + tile <= line.at[j]
  <2>1. end(i + 1) <= end(j)
    BY <1>5, <1>10
  <2>2. /\ line.at[i] \in Nat /\ line.at[i] + tile <= end(i + 1) /\ end(i + 1) \in Nat
        /\ end(j) <= line.at[j] /\ end(j) \in Nat /\ line.at[j] \in Nat
    BY <1>7
  <2> HIDE DEF end
  <2> QED
    BY <2>1, <2>2
<1> HIDE DEF end
<1>11. /\ line.length \in Nat
       /\ \A i \in 0..(n - 1) : line.at[i] \in Nat /\ line.at[i] + tile <= line.length
       /\ \A i, j \in 0..(n - 1) : i < j => line.at[i] + tile <= line.at[j]
  BY <1>6, <1>7, <1>8, <1>9, <1>10
<1> QED
  BY <1>11 DEF line


-----------------------------------------------------------------------------
(* The scanouts of a block.                                                *)

LEMMA SubSizes ==
    ASSUME Typed(params), Valid, NEW b
    PROVE  SubCols(b) \in 1..2 /\ SubRows(b) \in 1..2
           /\ SubCols(b) * SubRows(b) <= Product(Layout)
<1>1. Layout \in {<<1, 1>>, <<1, 2>>, <<2, 1>>} /\ \A d \in 1..2 : Clip(d) \in 1..Layout[d]
  BY ValidParameters
<1>2. SubCols(b) \in 1..Layout[1] /\ SubRows(b) \in 1..Layout[2]
  BY <1>1 DEF SubCols, SubRows
<1> QED
  BY <1>1, <1>2 DEF Product

LEMMA PortsDiffer ==
    ASSUME Typed(params), Valid, NEW b, NEW i \in 0..(Used(b) - 1), NEW j \in 0..(Used(b) - 1)
    PROVE  /\ PortOf(i) \in Int
           /\ PortOf(i) = PortOf(j) => i = j
<1> DEFINE ports == params.remap_display_outputs
<1>1. CASE ports = <<None>>
  BY <1>1, SubSizes DEF PortOf, Used
<1>2. CASE ports # <<None>>
  <2>1. /\ ports \in Seq(Int) /\ Len(ports) = Product(Layout) /\ params.stereo_mode # "passive"
        /\ \A k, m \in DOMAIN ports : ports[k] = ports[m] => k = m
    BY <1>2, ParameterTypes, ValidParameters DEF ValidRemap, Valid, Product
  <2>2. Used(b) \in Int /\ Used(b) <= Product(Layout)
    BY <2>1, SubSizes DEF Used
  <2>3. Len(ports) \in Nat /\ DOMAIN ports = 1..Len(ports)
    BY <2>1
  <2>4. i + 1 \in DOMAIN ports /\ j + 1 \in DOMAIN ports
    BY <2>1, <2>2, <2>3
  <2>5. PortOf(i) = ports[i + 1] /\ PortOf(j) = ports[j + 1]
    BY <1>2 DEF PortOf
  <2> QED
    BY <2>1, <2>4, <2>5
<1> QED
  BY <1>1, <1>2

LEMMA CellProps ==
    ASSUME Typed(params), Valid, NEW b, NEW i \in 0..(Used(b) - 1)
    PROVE  Cell(b, i) \in (0..(SubCols(b) - 1)) \X (0..(SubRows(b) - 1))
<1>1. SubCols(b) \in 1..2 /\ SubRows(b) \in 1..2
  BY SubSizes
<1>2. CASE params.stereo_mode = "passive"
  BY <1>1, <1>2 DEF Cell
<1>3. CASE params.stereo_mode # "passive"
  <2>1. i \in 0..(SubCols(b) * SubRows(b) - 1)
    BY <1>3 DEF Used
  <2>2. i % SubCols(b) \in 0..(SubCols(b) - 1) /\ i \div SubCols(b) \in 0..(SubRows(b) - 1)
    BY <1>1, <2>1
  <2> QED
    BY <1>3, <2>2 DEF Cell
<1> QED
  BY <1>2, <1>3

LEMMA CellsDiffer ==
    ASSUME Typed(params), Valid, params.stereo_mode # "passive", NEW b,
           NEW i \in 0..(Used(b) - 1), NEW j \in 0..(Used(b) - 1), Cell(b, i) = Cell(b, j)
    PROVE  i = j
<1>1. SubCols(b) \in 1..2 /\ SubRows(b) \in 1..2
  BY SubSizes
<1>2. i \in Nat /\ j \in Nat /\ SubCols(b) \in Nat \ {0}
  BY <1>1, SubSizes DEF Used
<1>3. i % SubCols(b) = j % SubCols(b) /\ i \div SubCols(b) = j \div SubCols(b)
  BY DEF Cell
<1>4. /\ i = SubCols(b) * (i \div SubCols(b)) + (i % SubCols(b))
      /\ j = SubCols(b) * (j \div SubCols(b)) + (j % SubCols(b))
  BY <1>2, Division
<1> QED
  BY <1>3, <1>4

\* Each scanout shows the display whose output it is.
LEMMA ScanoutShows ==
    ASSUME Typed(params), Valid, NEW b, NEW p \in DOMAIN Scanouts(b)
    PROVE  LET i == OutputOf(b, p) IN
           /\ p \in Int /\ i \in 0..(Used(b) - 1) /\ PortOf(i) = p
           /\ Scanouts(b)[p] = <<LineX(b).at[Cell(b, i)[1]], LineY(b).at[Cell(b, i)[2]]>>
<1>1. PICK k \in 0..(Used(b) - 1) : PortOf(k) = p
  BY DEF Scanouts
<1>2. OutputOf(b, p) \in 0..(Used(b) - 1) /\ PortOf(OutputOf(b, p)) = p
  BY <1>1 DEF OutputOf
<1>3. p \in Int
  BY <1>1, PortsDiffer
<1> QED
  BY <1>1, <1>2, <1>3 DEF Scanouts

LEMMA LinesOfBlock ==
    ASSUME Typed(params), Valid, NEW b
    PROVE  /\ LineX(b).length \in Nat /\ LineY(b).length \in Nat
           /\ \A i \in 0..(SubCols(b) - 1) :
                /\ LineX(b).at[i] \in Nat
                /\ LineX(b).at[i] + MatchedMode.width <= LineX(b).length
           /\ \A i, j \in 0..(SubCols(b) - 1) :
                i < j => LineX(b).at[i] + MatchedMode.width <= LineX(b).at[j]
           /\ \A i \in 0..(SubRows(b) - 1) :
                /\ LineY(b).at[i] \in Nat
                /\ LineY(b).at[i] + MatchedMode.height <= LineY(b).length
           /\ \A i, j \in 0..(SubRows(b) - 1) :
                i < j => LineY(b).at[i] + MatchedMode.height <= LineY(b).at[j]
<1>1. SubCols(b) \in Nat \ {0} /\ SubRows(b) \in Nat \ {0}
  BY SubSizes
<1>2. /\ MatchedMode.width \in Nat /\ Bezel("left") \in Nat /\ Bezel("right") \in Nat
      /\ MatchedMode.height \in Nat /\ Bezel("top") \in Nat /\ Bezel("bottom") \in Nat
  BY Sizes
<1>3. LET line == Line(b, Edges.x, SubCols(b), MatchedMode.width, Bezel("left"), Bezel("right")) IN
           /\ line.length \in Nat
           /\ \A i \in 0..(SubCols(b) - 1) :
                line.at[i] \in Nat /\ line.at[i] + MatchedMode.width <= line.length
           /\ \A i, j \in 0..(SubCols(b) - 1) :
                i < j => line.at[i] + MatchedMode.width <= line.at[j]
  BY <1>1, <1>2, LineProps
<1>4. LET line == Line(b, Edges.y, SubRows(b), MatchedMode.height, Bezel("top"), Bezel("bottom")) IN
           /\ line.length \in Nat
           /\ \A i \in 0..(SubRows(b) - 1) :
                line.at[i] \in Nat /\ line.at[i] + MatchedMode.height <= line.length
           /\ \A i, j \in 0..(SubRows(b) - 1) :
                i < j => line.at[i] + MatchedMode.height <= line.at[j]
  BY <1>1, <1>2, LineProps
<1> QED
  BY <1>3, <1>4 DEF LineX, LineY

LEMMA ScanoutsOfBlockApart ==
    ASSUME Typed(params), Valid, NEW b, NEW p \in DOMAIN Scanouts(b), NEW q \in DOMAIN Scanouts(b),
           p # q, params.stereo_mode # "passive"
    PROVE  LET shown(r) == At(Scanouts(b)[r], <<MatchedMode.width, MatchedMode.height>>)
           IN  Apart(shown(p), shown(q))
<1> DEFINE i == OutputOf(b, p)
           j == OutputOf(b, q)
           u == Cell(b, i)
           v == Cell(b, j)
           w == MatchedMode.width
           h == MatchedMode.height
<1>1. /\ i \in 0..(Used(b) - 1) /\ PortOf(i) = p
      /\ Scanouts(b)[p] = <<LineX(b).at[u[1]], LineY(b).at[u[2]]>>
  BY ScanoutShows
<1>2. /\ j \in 0..(Used(b) - 1) /\ PortOf(j) = q
      /\ Scanouts(b)[q] = <<LineX(b).at[v[1]], LineY(b).at[v[2]]>>
  BY ScanoutShows
<1>3. i # j
  BY <1>1, <1>2
<1> HIDE DEF i, j
<1>4. u # v
  BY <1>1, <1>2, <1>3, CellsDiffer
<1>5. /\ u \in (0..(SubCols(b) - 1)) \X (0..(SubRows(b) - 1))
      /\ v \in (0..(SubCols(b) - 1)) \X (0..(SubRows(b) - 1))
  BY <1>1, <1>2, CellProps
<1> HIDE DEF u, v
<1>6. u[1] # v[1] \/ u[2] # v[2]
  BY <1>4, <1>5
<1>7. SubCols(b) \in Int /\ SubRows(b) \in Int /\ w \in Nat /\ h \in Nat
  BY SubSizes, Sizes
<1>8. u[1] < v[1] \/ v[1] < u[1] \/ u[2] < v[2] \/ v[2] < u[2]
  BY <1>5, <1>6, <1>7
<1>9. \/ LineX(b).at[u[1]] + w <= LineX(b).at[v[1]]
      \/ LineX(b).at[v[1]] + w <= LineX(b).at[u[1]]
      \/ LineY(b).at[u[2]] + h <= LineY(b).at[v[2]]
      \/ LineY(b).at[v[2]] + h <= LineY(b).at[u[2]]
  BY <1>5, <1>8, LinesOfBlock
<1> QED
  BY <1>1, <1>2, <1>9 DEF Apart, At

\* The screens of a setup that worked are those of blocks.
LEMMA ScreenOf ==
    ASSUME NEW s \in DOMAIN Screens(Rects), NEW n \in DOMAIN Screens(Rects)[s]
    PROVE  /\ s \in DOMAIN gpus /\ n \in 0..(gpus[s] - 1)
           /\ Screens(Rects)[s][n] = NewScreen(GpusBefore(s) + n, Rects)
BY DEF Screens

LEMMA ScanoutsApartHolds == IInv => ScanoutsApart
<1> SUFFICES ASSUME IInv, Done, NEW s \in DOMAIN screens, NEW n \in DOMAIN screens[s]
             PROVE  LET scr == screens[s][n]
                        shown(p) == At(scr.scanouts[p], <<MatchedMode.width, MatchedMode.height>>)
                    IN  /\ \A p \in DOMAIN scr.scanouts :
                            /\ shown(p)[3] <= scr.resolution[1] /\ shown(p)[4] <= scr.resolution[2]
                            /\ p < Ports
                        /\ \A p, q \in DOMAIN scr.scanouts :
                            p = q \/ params.stereo_mode = "passive" \/ Apart(shown(p), shown(q))
  BY DEF ScanoutsApart
<1>1. Typed(params) /\ Valid /\ screens = Screens(Rects) /\ PortsExist
  BY DEF IInv, TypesOK, LaidOut
<1> DEFINE b == GpusBefore(s) + n
           scr == screens[s][n]
           size == <<MatchedMode.width, MatchedMode.height>>
<1>2. scr = NewScreen(b, Rects)
  BY <1>1, ScreenOf
<1>3. scr.resolution = <<LineX(b).length, LineY(b).length>> /\ scr.scanouts = Scanouts(b)
  BY <1>2 DEF NewScreen, Framebuffer
<1>4. \A p \in DOMAIN scr.scanouts : ~(p >= Ports)
  BY <1>1 DEF PortsExist
<1> HIDE DEF b, scr
<1>5. ASSUME NEW p \in DOMAIN scr.scanouts
      PROVE  /\ At(scr.scanouts[p], size)[3] <= scr.resolution[1]
             /\ At(scr.scanouts[p], size)[4] <= scr.resolution[2]
             /\ p < Ports
  <2> DEFINE i == OutputOf(b, p)
             u == Cell(b, i)
  <2>1. /\ p \in Int /\ i \in 0..(Used(b) - 1)
        /\ Scanouts(b)[p] = <<LineX(b).at[u[1]], LineY(b).at[u[2]]>>
    BY <1>1, <1>3, ScanoutShows
  <2> HIDE DEF i
  <2>2. u[1] \in 0..(SubCols(b) - 1) /\ u[2] \in 0..(SubRows(b) - 1)
    BY <1>1, <2>1, CellProps
  <2> HIDE DEF u
  <2>3. /\ LineX(b).at[u[1]] + MatchedMode.width <= LineX(b).length
        /\ LineY(b).at[u[2]] + MatchedMode.height <= LineY(b).length
    BY <1>1, <2>2, LinesOfBlock
  <2>4. p < Ports
    BY <1>4, <2>1, TiledDisplayAssumption
  <2> QED
    BY <1>3, <2>1, <2>3, <2>4 DEF At
<1>6. ASSUME NEW p \in DOMAIN scr.scanouts, NEW q \in DOMAIN scr.scanouts,
             p # q, params.stereo_mode # "passive"
      PROVE  Apart(At(scr.scanouts[p], size), At(scr.scanouts[q], size))
  BY <1>1, <1>3, <1>6, ScanoutsOfBlockApart
<1> QED
  BY <1>5, <1>6 DEF scr

\* The scanouts of a screen are apart and within its framebuffer, at ports that exist, for
\* any layout, clipping, remapping, mode and bezels (setupXServers and setScanout).
THEOREM TiledScanoutsApart == Spec => []ScanoutsApart
BY ScanoutsApartHolds, TiledInvariance, PTL


-----------------------------------------------------------------------------
(* The grid of blocks.                                                     *)

LEMMA ProductGrows ==
    ASSUME NEW a \in Nat, NEW m \in Nat, NEW n \in Nat, m <= n
    PROVE  a * m <= a * n
<1>1. PICK k \in Nat : n = m + k
  <2>1. n - m \in Nat /\ n = m + (n - m)
    OBVIOUS
  <2> QED
    BY <2>1
<1>2. a * (m + k) = a * m + a * k
  OBVIOUS
<1>3. a * k \in Nat /\ a * m \in Nat
  OBVIOUS
<1> QED
  BY <1>1, <1>2, <1>3

LEMMA GridIndex ==
    ASSUME NEW cols \in Nat \ {0}, NEW rows \in Nat \ {0}, NEW b \in 0..(cols * rows - 1)
    PROVE  /\ b % cols \in 0..(cols - 1)
           /\ b \div cols \in 0..(rows - 1)
           /\ b = cols * (b \div cols) + (b % cols)
<1>1. b \in Nat /\ b < cols * rows
  <2>1. cols * rows \in Int
    OBVIOUS
  <2> QED
    BY <2>1
<1>2. /\ b \div cols \in Nat /\ b % cols \in 0..(cols - 1)
      /\ b = cols * (b \div cols) + (b % cols)
  BY <1>1, Division
<1>3. ASSUME rows <= b \div cols
      PROVE  FALSE
  <2>1. cols * rows <= cols * (b \div cols)
    BY <1>2, <1>3, ProductGrows
  <2> QED
    BY <1>1, <1>2, <2>1
<1> QED
  BY <1>2, <1>3

LEMMA GridPlace ==
    ASSUME NEW cols \in Nat \ {0}, NEW rows \in Nat \ {0},
           NEW r \in 0..(rows - 1), NEW c \in 0..(cols - 1)
    PROVE  /\ r * cols + c \in 0..(cols * rows - 1)
           /\ (r * cols + c) \div cols = r
           /\ (r * cols + c) % cols = c
<1>1. r \in Nat /\ c \in Nat /\ cols * r \in Nat /\ cols * r = r * cols
  OBVIOUS
<1>2. (cols * r + c) \div cols = r /\ (cols * r + c) % cols = c
  BY <1>1, DivisionUnique
<1>3. cols * (r + 1) <= cols * rows
  BY ProductGrows
<1>4. cols * (r + 1) = cols * r + cols /\ cols * rows \in Nat
  OBVIOUS
<1> QED
  BY <1>1, <1>2, <1>3, <1>4

\* No block is rotated and clipped.
Regular == Upright \/ Unclipped

LEMMA UnclippedSizes ==
    ASSUME Typed(params), Valid, Unclipped, NEW b
    PROVE  SubCols(b) = Layout[1] /\ SubRows(b) = Layout[2]
<1>1. Layout \in {<<1, 1>>, <<1, 2>>, <<2, 1>>} /\ None \notin Int
  BY ValidParameters, TiledDisplayAssumption
<1>2. Clip(1) = Layout[1] /\ Clip(2) = Layout[2]
  BY <1>1 DEF Unclipped, Clip
<1> QED
  BY <1>2 DEF SubCols, SubRows

\* Blocks in a column take as much in width, and blocks in a row in height.
LEMMA SameColumn ==
    ASSUME Typed(params), Valid, Regular, NEW b, NEW c, Col(b) = Col(c)
    PROVE  Area(b)[1] = Area(c)[1]
<1>1. SubCols(b) = SubCols(c)
  BY DEF SubCols
<1>2. ASSUME NEW atStart, NEW i
      PROVE  HasBezel(b, "col", atStart, i) = HasBezel(c, "col", atStart, i)
  BY <1>1 DEF HasBezel
<1>3. ASSUME NEW atStart, NEW n, NEW tile, NEW near, NEW far
      PROVE  Line(b, <<"col", atStart>>, n, tile, near, far) = Line(c, <<"col", atStart>>, n, tile, near, far)
  BY <1>2 DEF Line
<1>4. CASE Upright
  <2>1. \E atStart : Edges.x = <<"col", atStart>>
    BY <1>4 DEF Upright, Edges
  <2>2. LineX(b) = LineX(c)
    BY <2>1, <1>1, <1>3 DEF LineX
  <2> QED
    BY <1>4, <2>2 DEF Area, Turned, Framebuffer
<1>5. CASE ~Upright
  <2>1. \E atStart : Edges.y = <<"col", atStart>>
    BY <1>5 DEF Upright, Edges
  <2>2. SubRows(b) = SubRows(c)
    BY <1>5, UnclippedSizes DEF Regular
  <2>3. LineY(b) = LineY(c)
    BY <2>1, <2>2, <1>3 DEF LineY
  <2> QED
    BY <1>5, <2>3 DEF Area, Turned, Framebuffer
<1> QED
  BY <1>4, <1>5

LEMMA SameRow ==
    ASSUME Typed(params), Valid, Regular, NEW b, NEW c, Row(b) = Row(c)
    PROVE  Area(b)[2] = Area(c)[2]
<1>1. SubRows(b) = SubRows(c)
  BY DEF SubRows
<1>2. ASSUME NEW atStart, NEW i
      PROVE  HasBezel(b, "row", atStart, i) = HasBezel(c, "row", atStart, i)
  BY <1>1 DEF HasBezel
<1>3. ASSUME NEW atStart, NEW n, NEW tile, NEW near, NEW far
      PROVE  Line(b, <<"row", atStart>>, n, tile, near, far) = Line(c, <<"row", atStart>>, n, tile, near, far)
  BY <1>2 DEF Line
<1>4. CASE Upright
  <2>1. \E atStart : Edges.y = <<"row", atStart>>
    BY <1>4 DEF Upright, Edges
  <2>2. LineY(b) = LineY(c)
    BY <2>1, <1>1, <1>3 DEF LineY
  <2> QED
    BY <1>4, <2>2 DEF Area, Turned, Framebuffer
<1>5. CASE ~Upright
  <2>1. \E atStart : Edges.x = <<"row", atStart>>
    BY <1>5 DEF Upright, Edges
  <2>2. SubCols(b) = SubCols(c)
    BY <1>5, UnclippedSizes DEF Regular
  <2>3. LineX(b) = LineX(c)
    BY <2>1, <2>2, <1>3 DEF LineX
  <2> QED
    BY <1>5, <2>3 DEF Area, Turned, Framebuffer
<1> QED
  BY <1>4, <1>5

LEMMA AreaType ==
    ASSUME Typed(params), Valid, NEW b
    PROVE  Area(b) \in Nat \X Nat /\ Framebuffer(b) \in Nat \X Nat
<1>1. LineX(b).length \in Nat /\ LineY(b).length \in Nat
  BY LinesOfBlock
<1> QED
  BY <1>1 DEF Area, Turned, Framebuffer

\* The widths of the columns, and the heights of the rows; where they start.
Widths == [c \in 0..(params.num_blocks[1] - 1) |-> Area(c)[1]]
Heights == [r \in 0..(params.num_blocks[2] - 1) |-> Area(r * params.num_blocks[1])[2]]
Upto(F, n) == SumFunctionOnSet(F, 0..(n - 1))
X(c) == Upto(Widths, c)
Y(r) == Upto(Heights, r)

LEMMA UptoProps ==
    ASSUME NEW F, NEW n \in Nat, \A i \in 0..(n - 1) : F[i] \in Nat
    PROVE  /\ \A i \in 0..(n - 1) : Upto(F, i + 1) = Upto(F, i) + F[i]
           /\ \A i \in 0..n : Upto(F, i) \in Nat
           /\ \A i, e \in 0..n : i <= e => Upto(F, i) <= Upto(F, e)
           /\ Upto(F, 0) = 0
<1>1. ASSUME NEW i \in 0..(n - 1)
      PROVE  Upto(F, i + 1) = Upto(F, i) + F[i]
  <2>1. \A k \in 0..i : F[k] \in Int
    OBVIOUS
  <2>2. SumFunctionOnSet(F, 0..i) = SumFunctionOnSet(F, 0..(i - 1)) + F[i]
    BY <2>1, SumNext
  <2>3. i + 1 - 1 = i
    OBVIOUS
  <2> QED
    BY <2>2, <2>3 DEF Upto
<1>2. ASSUME NEW i \in 0..n, NEW e \in 0..n, i <= e
      PROVE  Upto(F, i) \in Nat /\ Upto(F, i) <= Upto(F, e)
  <2>1. \A k \in 0..(e - 1) : F[k] \in Nat
    OBVIOUS
  <2>2. i - 1 \in Int /\ e - 1 \in Int /\ i - 1 <= e - 1
    BY <1>2
  <2> QED
    BY <2>1, <2>2, SumGrows DEF Upto
<1>3. Upto(F, 0) = 0
  <2>1. 0..(0 - 1) = {}
    OBVIOUS
  <2> QED
    BY <2>1, SumOfNone DEF Upto
<1>4. \A i \in 0..n : Upto(F, i) \in Nat
  BY <1>2
<1> QED
  BY <1>1, <1>2, <1>3, <1>4

LEMMA GridProps ==
    ASSUME Typed(params), Valid
    PROVE  /\ \A c \in 0..(params.num_blocks[1] - 1) :
                X(c) \in Nat /\ Widths[c] \in Nat /\ X(c + 1) = X(c) + Widths[c]
           /\ \A r \in 0..(params.num_blocks[2] - 1) :
                Y(r) \in Nat /\ Heights[r] \in Nat /\ Y(r + 1) = Y(r) + Heights[r]
           /\ \A c \in 0..params.num_blocks[1] : X(c) \in Nat
           /\ \A r \in 0..params.num_blocks[2] : Y(r) \in Nat
           /\ \A c, e \in 0..params.num_blocks[1] : c <= e => X(c) <= X(e)
           /\ \A r, e \in 0..params.num_blocks[2] : r <= e => Y(r) <= Y(e)
           /\ X(0) = 0 /\ Y(0) = 0
<1>1. params.num_blocks[1] \in Nat /\ params.num_blocks[2] \in Nat
  BY ValidParameters
<1>2. /\ \A c \in 0..(params.num_blocks[1] - 1) : Widths[c] \in Nat
      /\ \A r \in 0..(params.num_blocks[2] - 1) : Heights[r] \in Nat
  BY AreaType DEF Widths, Heights
<1>3. /\ \A i \in 0..(params.num_blocks[1] - 1) : X(i + 1) = X(i) + Widths[i]
      /\ \A i \in 0..params.num_blocks[1] : X(i) \in Nat
      /\ \A i, e \in 0..params.num_blocks[1] : i <= e => X(i) <= X(e)
      /\ X(0) = 0
  BY <1>1, <1>2, UptoProps DEF X
<1>4. /\ \A i \in 0..(params.num_blocks[2] - 1) : Y(i + 1) = Y(i) + Heights[i]
      /\ \A i \in 0..params.num_blocks[2] : Y(i) \in Nat
      /\ \A i, e \in 0..params.num_blocks[2] : i <= e => Y(i) <= Y(e)
      /\ Y(0) = 0
  BY <1>1, <1>2, UptoProps DEF Y
<1> QED
  BY <1>1, <1>2, <1>3, <1>4

LEMMA BlockPlace ==
    ASSUME Typed(params), Valid, NEW b \in 0..(NumBlocks - 1)
    PROVE  /\ Col(b) \in 0..(params.num_blocks[1] - 1)
           /\ Row(b) \in 0..(params.num_blocks[2] - 1)
           /\ b = params.num_blocks[1] * Row(b) + Col(b)
BY ValidParameters, GridIndex DEF NumBlocks, Product, Col, Row

LEMMA BlocksCount ==
    ASSUME Typed(params), Valid
    PROVE  NumBlocks \in Nat \ {0} /\ TotalGpus = NumBlocks
<1>1. NumBlocks \in Nat \ {0}
  BY ValidParameters DEF NumBlocks, Product
<1> QED
  BY <1>1, ValidParameters DEF ValidGpus, Valid

LEMMA PlaceBlock ==
    ASSUME Typed(params), Valid,
           NEW r \in 0..(params.num_blocks[2] - 1), NEW c \in 0..(params.num_blocks[1] - 1)
    PROVE  /\ r * params.num_blocks[1] + c \in 0..(NumBlocks - 1)
           /\ Row(r * params.num_blocks[1] + c) = r
           /\ Col(r * params.num_blocks[1] + c) = c
BY ValidParameters, GridPlace DEF NumBlocks, Product, Col, Row

LEMMA IndexPlace ==
    ASSUME Typed(params), Valid, NEW b, NEW r \in Nat, NEW c \in 0..(params.num_blocks[1] - 1),
           b = params.num_blocks[1] * r + c
    PROVE  Row(b) = r /\ Col(b) = c
<1>1. params.num_blocks[1] \in Nat \ {0}
  BY ValidParameters
<1>2. /\ (params.num_blocks[1] * r + c) \div params.num_blocks[1] = r
      /\ (params.num_blocks[1] * r + c) % params.num_blocks[1] = c
  BY <1>1, DivisionUnique
<1> QED
  BY <1>2 DEF Row, Col

\* The last block is at the end of the last row.
LEMMA LastBlock ==
    ASSUME Typed(params), Valid
    PROVE  /\ NumBlocks - 1 \in 0..(NumBlocks - 1)
           /\ Row(NumBlocks - 1) = params.num_blocks[2] - 1
           /\ Col(NumBlocks - 1) = params.num_blocks[1] - 1
<1> DEFINE cols == params.num_blocks[1]
           rows == params.num_blocks[2]
<1>1. cols \in Nat \ {0} /\ rows \in Nat \ {0} /\ NumBlocks = cols * rows
  BY ValidParameters DEF NumBlocks, Product
<1>2. cols * (rows - 1) = cols * rows - cols /\ cols * (rows - 1) \in Nat
  BY <1>1
<1>3. NumBlocks - 1 = cols * (rows - 1) + (cols - 1) /\ rows - 1 \in Nat /\ cols - 1 \in 0..(cols - 1)
      /\ NumBlocks - 1 \in 0..(NumBlocks - 1)
  BY <1>1, <1>2
<1> QED
  BY <1>3, IndexPlace

LEMMA AreaOfBlock ==
    ASSUME Typed(params), Valid, Regular, NEW b \in 0..(NumBlocks - 1)
    PROVE  Area(b) = <<Widths[Col(b)], Heights[Row(b)]>>
<1>1. /\ params.num_blocks[1] \in Nat \ {0} /\ params.num_blocks[2] \in Nat \ {0}
      /\ 0 \in 0..(params.num_blocks[2] - 1) /\ 0 \in 0..(params.num_blocks[1] - 1)
  BY ValidParameters
<1>2. Col(b) \in 0..(params.num_blocks[1] - 1) /\ Row(b) \in 0..(params.num_blocks[2] - 1)
  BY BlockPlace
<1>3. Col(Col(b)) = Col(b)
  <2>1. Col(0 * params.num_blocks[1] + Col(b)) = Col(b)
    BY <1>1, <1>2, PlaceBlock
  <2>2. 0 * params.num_blocks[1] + Col(b) = Col(b)
    BY <1>1, <1>2
  <2> QED
    BY <2>1, <2>2
<1>4. Row(Row(b) * params.num_blocks[1]) = Row(b)
  <2>1. Row(Row(b) * params.num_blocks[1] + 0) = Row(b)
    BY <1>1, <1>2, PlaceBlock
  <2>2. Row(b) * params.num_blocks[1] + 0 = Row(b) * params.num_blocks[1]
    BY <1>1, <1>2
  <2> QED
    BY <2>1, <2>2
<1>5. Area(b)[1] = Area(Col(b))[1] /\ Area(b)[2] = Area(Row(b) * params.num_blocks[1])[2]
  BY <1>3, <1>4, SameColumn, SameRow
<1>6. Area(b)[1] = Widths[Col(b)] /\ Area(b)[2] = Heights[Row(b)]
  BY <1>2, <1>5 DEF Widths, Heights
<1> QED
  BY <1>6, AreaType

LEMMA GridRects ==
    ASSUME Typed(params), Valid, Regular
    PROVE  /\ DOMAIN Rects = 0..(NumBlocks - 1)
           /\ \A b \in 0..(NumBlocks - 1) :
                Rects[b] = <<X(Col(b)), Y(Row(b)), X(Col(b) + 1), Y(Row(b) + 1)>>
<1> DEFINE cols == params.num_blocks[1]
           area == [b \in 0..(NumBlocks - 1) |-> Area(b)]
           widths(row) == [c \in 0..(cols - 1) |-> area[row * cols + c][1]]
           heights == [r \in 0..(params.num_blocks[2] - 1) |-> area[r * cols + cols - 1][2]]
           x(b) == SumFunctionOnSet(widths(Row(b)), 0..(Col(b) - 1))
           y(b) == SumFunctionOnSet(heights, 0..(Row(b) - 1))
<1>1. Rects = [b \in 0..(NumBlocks - 1) |-> <<x(b), y(b), x(b) + area[b][1], y(b) + area[b][2]>>]
  BY DEF Rects, Placed
<1>2. cols \in Nat \ {0} /\ params.num_blocks[2] \in Nat \ {0}
  BY ValidParameters
<1>3. ASSUME NEW r \in 0..(params.num_blocks[2] - 1), NEW c \in 0..(cols - 1)
      PROVE  area[r * cols + c] = <<Widths[c], Heights[r]>>
  BY PlaceBlock, AreaOfBlock
<1>4. ASSUME NEW r \in 0..(params.num_blocks[2] - 1)
      PROVE  widths(r) = Widths
  <2>1. ASSUME NEW c \in 0..(cols - 1)
        PROVE  widths(r)[c] = Widths[c]
    <3>1. widths(r)[c] = area[r * cols + c][1]
      OBVIOUS
    <3>2. area[r * cols + c] = <<Widths[c], Heights[r]>>
      BY <1>3
    <3> HIDE DEF area, widths
    <3> QED
      BY <3>1, <3>2
  <2>2. Widths = [c \in 0..(cols - 1) |-> Widths[c]]
    BY DEF Widths
  <2> QED
    BY <2>1, <2>2
<1>5. heights = Heights
  <2>1. ASSUME NEW r \in 0..(params.num_blocks[2] - 1)
        PROVE  heights[r] = Heights[r]
    <3>1. cols - 1 \in 0..(cols - 1) /\ r * cols + cols - 1 = r * cols + (cols - 1)
      BY <1>2
    <3>2. area[r * cols + (cols - 1)] = <<Widths[cols - 1], Heights[r]>>
      BY <1>3, <3>1
    <3>3. heights[r] = area[r * cols + cols - 1][2]
      OBVIOUS
    <3> HIDE DEF area, heights
    <3> QED
      BY <3>1, <3>2, <3>3
  <2>2. Heights = [r \in 0..(params.num_blocks[2] - 1) |-> Heights[r]]
    BY DEF Heights
  <2> QED
    BY <2>1, <2>2
<1>6. ASSUME NEW b \in 0..(NumBlocks - 1)
      PROVE  Rects[b] = <<X(Col(b)), Y(Row(b)), X(Col(b) + 1), Y(Row(b) + 1)>>
  <2>1. Col(b) \in 0..(cols - 1) /\ Row(b) \in 0..(params.num_blocks[2] - 1)
    BY BlockPlace
  <2>2. x(b) = X(Col(b)) /\ y(b) = Y(Row(b))
    BY <2>1, <1>4, <1>5 DEF X, Y, Upto
  <2>3. area[b] = <<Widths[Col(b)], Heights[Row(b)]>>
    BY AreaOfBlock
  <2>4. X(Col(b) + 1) = X(Col(b)) + Widths[Col(b)] /\ Y(Row(b) + 1) = Y(Row(b)) + Heights[Row(b)]
    BY <2>1, GridProps
  <2> HIDE DEF x, y, area
  <2> QED
    BY <1>1, <2>2, <2>3, <2>4
<1>7. DOMAIN Rects = 0..(NumBlocks - 1)
  BY <1>1
<1> QED
  BY <1>6, <1>7


LEMMA RectsApart ==
    ASSUME Typed(params), Valid, Regular,
           NEW b \in 0..(NumBlocks - 1), NEW c \in 0..(NumBlocks - 1), b # c
    PROVE  Apart(Rects[b], Rects[c])
<1>1. /\ Rects[b] = <<X(Col(b)), Y(Row(b)), X(Col(b) + 1), Y(Row(b) + 1)>>
      /\ Rects[c] = <<X(Col(c)), Y(Row(c)), X(Col(c) + 1), Y(Row(c) + 1)>>
  BY GridRects
<1>2. /\ Col(b) \in 0..(params.num_blocks[1] - 1) /\ Row(b) \in 0..(params.num_blocks[2] - 1)
      /\ Col(c) \in 0..(params.num_blocks[1] - 1) /\ Row(c) \in 0..(params.num_blocks[2] - 1)
      /\ b = params.num_blocks[1] * Row(b) + Col(b)
      /\ c = params.num_blocks[1] * Row(c) + Col(c)
      /\ params.num_blocks[1] \in Nat /\ params.num_blocks[2] \in Nat
  BY BlockPlace, ValidParameters
<1>3. Col(b) # Col(c) \/ Row(b) # Row(c)
  BY <1>2
<1>4. ASSUME NEW k \in 0..(params.num_blocks[1] - 1), NEW m \in 0..(params.num_blocks[1] - 1), k < m
      PROVE  X(k + 1) <= X(m)
  BY <1>2, <1>4, GridProps
<1>5. ASSUME NEW k \in 0..(params.num_blocks[2] - 1), NEW m \in 0..(params.num_blocks[2] - 1), k < m
      PROVE  Y(k + 1) <= Y(m)
  BY <1>2, <1>5, GridProps
<1>6. Col(b) < Col(c) \/ Col(c) < Col(b) \/ Row(b) < Row(c) \/ Row(c) < Row(b)
  BY <1>2, <1>3
<1>7. \/ X(Col(b) + 1) <= X(Col(c)) \/ X(Col(c) + 1) <= X(Col(b))
      \/ Y(Row(b) + 1) <= Y(Row(c)) \/ Y(Row(c) + 1) <= Y(Row(b))
  BY <1>2, <1>4, <1>5, <1>6
<1> QED
  BY <1>1, <1>7 DEF Apart

\* The areas of the first blocks are whole rows and the beginning of one.
LEMMA AreasAddUp ==
    ASSUME Typed(params), Valid, NEW F,
           \A b \in 0..(NumBlocks - 1) : F[b] = Widths[Col(b)] * Heights[Row(b)]
    PROVE  SumFunctionOnSet(F, 0..(NumBlocks - 1)) = X(params.num_blocks[1]) * Y(params.num_blocks[2])
<1> DEFINE cols == params.num_blocks[1]
           rows == params.num_blocks[2]
           sum(b) == SumFunctionOnSet(F, 0..b)
           done(b) == X(cols) * Y(Row(b)) + X(Col(b) + 1) * Heights[Row(b)]
           Good == {b \in Nat : b <= NumBlocks - 1 => sum(b) = done(b)}
<1>1. cols \in Nat \ {0} /\ rows \in Nat \ {0} /\ NumBlocks = cols * rows /\ NumBlocks \in Nat \ {0}
  BY ValidParameters DEF NumBlocks, Product
<1>2. ASSUME NEW b \in 0..(NumBlocks - 1)
      PROVE  /\ Col(b) \in 0..(cols - 1) /\ Row(b) \in 0..(rows - 1) /\ b = cols * Row(b) + Col(b)
             /\ Widths[Col(b)] \in Nat /\ Heights[Row(b)] \in Nat /\ F[b] \in Nat
             /\ X(Col(b)) \in Nat /\ Y(Row(b)) \in Nat
             /\ X(Col(b) + 1) = X(Col(b)) + Widths[Col(b)]
             /\ Y(Row(b) + 1) = Y(Row(b)) + Heights[Row(b)]
  <2>1. Col(b) \in 0..(cols - 1) /\ Row(b) \in 0..(rows - 1) /\ b = cols * Row(b) + Col(b)
    BY BlockPlace
  <2>2. /\ Widths[Col(b)] \in Nat /\ Heights[Row(b)] \in Nat
        /\ X(Col(b)) \in Nat /\ Y(Row(b)) \in Nat
        /\ X(Col(b) + 1) = X(Col(b)) + Widths[Col(b)]
        /\ Y(Row(b) + 1) = Y(Row(b)) + Heights[Row(b)]
    BY <2>1, GridProps
  <2> QED
    BY <2>1, <2>2
<1>3. X(0) = 0 /\ Y(0) = 0 /\ X(cols) \in Nat
  <2>1. cols \in 0..cols
    BY <1>1
  <2> QED
    BY <2>1, GridProps
<1>4. ASSUME NEW b \in 0..(NumBlocks - 1)
      PROVE  sum(b) = SumFunctionOnSet(F, 0..(b - 1)) + F[b] /\ F[b] \in Int
  <2>1. \A i \in 0..b : F[i] \in Int
    BY <1>1, <1>2
  <2> QED
    BY <2>1, SumNext
<1>5. ASSUME NEW b \in 1..(NumBlocks - 1)
      PROVE  sum(b) = sum(b - 1) + F[b]
  BY <1>4
<1>6. ASSUME NEW b \in 0..(NumBlocks - 1), b = 0
      PROVE  sum(b) = F[b]
  <2>1. 0..(b - 1) = {}
    BY <1>6
  <2>2. SumFunctionOnSet(F, 0..(b - 1)) = 0
    BY <2>1, SumOfNone
  <2> QED
    BY <1>4, <2>2
<1> HIDE DEF sum
<1>7. 0 \in Good
  <2>1. 0 \in 0..(NumBlocks - 1)
    BY <1>1
  <2>2. 0 = cols * Row(0) + Col(0) /\ Row(0) \in Nat /\ Col(0) \in Nat
    BY <1>1, <1>2, <2>1
  <2>3. Row(0) = 0 /\ Col(0) = 0
    BY <1>1 DEF Row, Col
  <2>4. F[0] = Widths[0] * Heights[0] /\ X(0 + 1) = X(0) + Widths[0] /\ Widths[0] \in Nat /\ Heights[0] \in Nat
    BY <1>2, <2>1, <2>3
  <2>5. X(0 + 1) = Widths[0]
    BY <1>3, <2>4
  <2>6. X(cols) * Y(0) = 0
    BY <1>3
  <2>7. done(0) = X(cols) * Y(0) + X(0 + 1) * Heights[0]
    BY <2>3
  <2>8. done(0) = Widths[0] * Heights[0]
    BY <2>4, <2>5, <2>6, <2>7
  <2>9. sum(0) = F[0]
    BY <1>6, <2>1
  <2> QED
    BY <2>4, <2>8, <2>9
<1>8. ASSUME NEW n \in Nat, n \in Good
      PROVE  n + 1 \in Good
  <2> SUFFICES ASSUME n + 1 <= NumBlocks - 1
               PROVE  sum(n + 1) = done(n + 1)
    BY DEF Good
  <2> DEFINE b == n + 1
             r == Row(n)
             c == Col(n)
  <2>1. n \in 0..(NumBlocks - 1) /\ b \in 0..(NumBlocks - 1) /\ b \in 1..(NumBlocks - 1) /\ b - 1 = n
    BY <1>1
  <2>2. sum(n) = X(cols) * Y(r) + X(c + 1) * Heights[r]
    BY <1>1, <1>8, <2>1
  <2>3. sum(b) = sum(n) + F[b] /\ F[b] = Widths[Col(b)] * Heights[Row(b)]
    BY <1>5, <2>1
  <2>4. /\ c \in 0..(cols - 1) /\ r \in 0..(rows - 1) /\ n = cols * r + c
        /\ X(c) \in Nat /\ X(c + 1) = X(c) + Widths[c] /\ Widths[c] \in Nat
        /\ Y(r) \in Nat /\ Y(r + 1) = Y(r) + Heights[r] /\ Heights[r] \in Nat
    BY <1>2, <2>1
  <2>5. /\ Widths[Col(b)] \in Nat /\ Heights[Row(b)] \in Nat /\ X(Col(b)) \in Nat
        /\ X(Col(b) + 1) = X(Col(b)) + Widths[Col(b)]
    BY <1>2, <2>1
  <2>6. CASE c + 1 < cols
    <3>1. c + 1 \in 0..(cols - 1) /\ r \in Nat /\ b = cols * r + (c + 1)
      BY <1>1, <2>4, <2>6
    <3>2. Row(b) = r /\ Col(b) = c + 1
      BY <1>1, <3>1, IndexPlace
    <3>3. done(b) = X(cols) * Y(r) + X(c + 1 + 1) * Heights[r]
      BY <3>2
    <3>4. F[b] = Widths[c + 1] * Heights[r] /\ X(c + 1 + 1) = X(c + 1) + Widths[c + 1]
          /\ Widths[c + 1] \in Nat
      BY <2>3, <2>5, <3>2
    <3>5. X(c + 1) \in Nat
      BY <2>4
    <3>6. ASSUME NEW p \in Nat, NEW q \in Nat, NEW h \in Nat
          PROVE  (p + q) * h = p * h + q * h
      OBVIOUS
    <3>7. (X(c + 1) + Widths[c + 1]) * Heights[r] = X(c + 1) * Heights[r] + Widths[c + 1] * Heights[r]
      BY <2>4, <3>4, <3>5, <3>6
    <3>8. /\ X(cols) * Y(r) \in Nat /\ X(c + 1) * Heights[r] \in Nat /\ Widths[c + 1] * Heights[r] \in Nat
      BY <1>3, <2>4, <3>4, <3>5
    <3> HIDE DEF b, r, c
    <3> QED
      BY <2>2, <2>3, <3>3, <3>4, <3>7, <3>8 DEF b
  <2>7. CASE c = cols - 1
    <3>1. b = cols * (r + 1) + 0 /\ r + 1 \in Nat /\ 0 \in 0..(cols - 1) /\ c + 1 = cols
      BY <1>1, <2>4, <2>7
    <3>2. Row(b) = r + 1 /\ Col(b) = 0
      BY <1>1, <3>1, IndexPlace
    <3>3. done(b) = X(cols) * Y(r + 1) + X(0 + 1) * Heights[r + 1]
      BY <3>2
    <3>4. F[b] = Widths[0] * Heights[r + 1] /\ X(0 + 1) = Widths[0]
          /\ Widths[0] \in Nat /\ Heights[r + 1] \in Nat
      BY <1>3, <2>3, <2>5, <3>2
    <3>5. sum(n) = X(cols) * Y(r) + X(cols) * Heights[r]
      BY <2>2, <3>1
    <3>6. ASSUME NEW p \in Nat, NEW q \in Nat, NEW h \in Nat
          PROVE  h * (p + q) = h * p + h * q
      OBVIOUS
    <3>7. X(cols) * (Y(r) + Heights[r]) = X(cols) * Y(r) + X(cols) * Heights[r]
      BY <1>3, <2>4, <3>6
    <3>8. sum(n) = X(cols) * Y(r + 1)
      BY <2>4, <3>5, <3>7
    <3> HIDE DEF b, r, c
    <3> QED
      BY <2>3, <3>3, <3>4, <3>8 DEF b
  <2> HIDE DEF b, r, c
  <2> QED
    BY <1>1, <2>4, <2>6, <2>7
<1>9. Nat \subseteq Good
  <2> HIDE DEF Good
  <2> QED
    BY <1>7, <1>8, NatSetInduction
<1>10. sum(NumBlocks - 1) = done(NumBlocks - 1)
  BY <1>1, <1>9
<1>11. Row(NumBlocks - 1) = rows - 1 /\ Col(NumBlocks - 1) = cols - 1
  BY LastBlock
<1>12. /\ Y(rows) = Y(rows - 1) + Heights[rows - 1] /\ Y(rows - 1) \in Nat /\ Heights[rows - 1] \in Nat
  <2>1. rows - 1 \in 0..(rows - 1) /\ rows - 1 + 1 = rows
    BY <1>1
  <2>2. Y(rows - 1 + 1) = Y(rows - 1) + Heights[rows - 1] /\ Y(rows - 1) \in Nat /\ Heights[rows - 1] \in Nat
    BY <2>1, GridProps
  <2> QED
    BY <2>1, <2>2
<1>13. done(NumBlocks - 1) = X(cols) * Y(rows - 1) + X(cols) * Heights[rows - 1]
  <2>1. cols - 1 + 1 = cols
    BY <1>1
  <2> QED
    BY <1>11, <2>1
<1>14. ASSUME NEW p \in Nat, NEW q \in Nat, NEW h \in Nat
       PROVE  h * (p + q) = h * p + h * q
  OBVIOUS
<1>15. X(cols) * (Y(rows - 1) + Heights[rows - 1]) = X(cols) * Y(rows - 1) + X(cols) * Heights[rows - 1]
  BY <1>3, <1>12, <1>14
<1> QED
  BY <1>10, <1>12, <1>13, <1>15 DEF sum

LEMMA BlocksTileHolds == IInv => BlocksTile
<1> SUFFICES ASSUME IInv, Done, Regular
             PROVE  /\ \A b, c \in DOMAIN blocks : b # c => Apart(blocks[b], blocks[c])
                    /\ SumFunction([b \in DOMAIN blocks |->
                                       (blocks[b][3] - blocks[b][1]) * (blocks[b][4] - blocks[b][2])])
                       = blocks[NumBlocks - 1][3] * blocks[NumBlocks - 1][4]
  BY DEF BlocksTile, Regular
<1>1. Typed(params) /\ Valid /\ blocks = Rects
  BY DEF IInv, TypesOK, LaidOut
<1>2. DOMAIN blocks = 0..(NumBlocks - 1)
  BY <1>1, GridRects
<1>3. \A b, c \in DOMAIN blocks : b # c => Apart(blocks[b], blocks[c])
  BY <1>1, <1>2, RectsApart
<1> DEFINE F == [b \in DOMAIN blocks |-> (blocks[b][3] - blocks[b][1]) * (blocks[b][4] - blocks[b][2])]
<1>4. ASSUME NEW b \in 0..(NumBlocks - 1)
      PROVE  F[b] = Widths[Col(b)] * Heights[Row(b)]
  <2>1. blocks[b] = <<X(Col(b)), Y(Row(b)), X(Col(b) + 1), Y(Row(b) + 1)>>
    BY <1>1, GridRects
  <2>2. Col(b) \in 0..(params.num_blocks[1] - 1) /\ Row(b) \in 0..(params.num_blocks[2] - 1)
    BY <1>1, BlockPlace
  <2>3. /\ X(Col(b)) \in Nat /\ Widths[Col(b)] \in Nat /\ X(Col(b) + 1) = X(Col(b)) + Widths[Col(b)]
        /\ Y(Row(b)) \in Nat /\ Heights[Row(b)] \in Nat /\ Y(Row(b) + 1) = Y(Row(b)) + Heights[Row(b)]
    BY <1>1, <2>2, GridProps
  <2>4. blocks[b][3] - blocks[b][1] = Widths[Col(b)] /\ blocks[b][4] - blocks[b][2] = Heights[Row(b)]
    BY <2>1, <2>3
  <2>5. F[b] = (blocks[b][3] - blocks[b][1]) * (blocks[b][4] - blocks[b][2])
    BY <1>2
  <2> QED
    BY <2>4, <2>5
<1>5. SumFunction(F) = SumFunctionOnSet(F, 0..(NumBlocks - 1))
  BY <1>2 DEF SumFunction
<1> HIDE DEF F
<1>6. SumFunctionOnSet(F, 0..(NumBlocks - 1)) = X(params.num_blocks[1]) * Y(params.num_blocks[2])
  BY <1>1, <1>4, AreasAddUp
<1>7. /\ blocks[NumBlocks - 1][3] = X(params.num_blocks[1])
      /\ blocks[NumBlocks - 1][4] = Y(params.num_blocks[2])
  <2> DEFINE cols == params.num_blocks[1]
             rows == params.num_blocks[2]
  <2>1. cols \in Nat \ {0} /\ rows \in Nat \ {0}
    BY <1>1, ValidParameters
  <2>4. NumBlocks - 1 \in 0..(NumBlocks - 1) /\ Row(NumBlocks - 1) = rows - 1 /\ Col(NumBlocks - 1) = cols - 1
    BY <1>1, LastBlock
  <2>5. rows - 1 + 1 = rows /\ cols - 1 + 1 = cols
    BY <2>1
  <2>6. blocks[NumBlocks - 1] = <<X(cols - 1), Y(rows - 1), X(cols - 1 + 1), Y(rows - 1 + 1)>>
    BY <1>1, <2>4, GridRects
  <2> QED
    BY <2>5, <2>6
<1> QED
  BY <1>3, <1>5, <1>6, <1>7 DEF F

\* The areas of the blocks do not overlap and leave nothing of the display out, for any
\* number of blocks and any layout and bezels, on walls that are turned to portrait or
\* clipped, but not both, where it is false (the curX and curY of setupXServers).
THEOREM TiledBlocksTile == Spec => []BlocksTile
BY BlocksTileHolds, TiledInvariance, PTL


-----------------------------------------------------------------------------
(* The screens of an X server, and the groups.                             *)

LEMMA SumOfGpus ==
    ASSUME gpus \in Seq(Nat), NEW s \in DOMAIN gpus
    PROVE  /\ GpusBefore(s) \in Nat /\ gpus[s] \in Nat
           /\ GpusBefore(s) + gpus[s] = SumFunctionOnSet(gpus, 1..s)
           /\ GpusBefore(s) + gpus[s] <= TotalGpus
<1>1. DOMAIN gpus = 1..Len(gpus) /\ Len(gpus) \in Nat /\ \A i \in 1..Len(gpus) : gpus[i] \in Nat
  OBVIOUS
<1>2. SumFunctionOnSet(gpus, 1..s) = SumFunctionOnSet(gpus, 1..(s - 1)) + gpus[s]
  <2>1. 1 \in Int /\ s \in Int /\ 1 <= s
    BY <1>1
  <2>2. \A i \in 1..s : gpus[i] \in Int
    BY <1>1
  <2>3. /\ SumFunctionOnSet(gpus, 1..s) \in Int
        /\ SumFunctionOnSet(gpus, 1..(s - 1)) \in Int
        /\ SumFunctionOnSet(gpus, 1..s) = SumFunctionOnSet(gpus, 1..(s - 1)) + gpus[s]
    BY <2>1, <2>2, SumNext
  <2> QED
    BY <2>3
<1>3. SumFunctionOnSet(gpus, 1..(s - 1)) \in Nat
  <2>1. s - 1 \in Int /\ s - 1 <= s - 1 /\ \A i \in 1..(s - 1) : gpus[i] \in Nat
    BY <1>1
  <2> QED
    BY <2>1, SumGrows
<1>4. SumFunctionOnSet(gpus, 1..s) <= SumFunctionOnSet(gpus, 1..Len(gpus))
  <2> DEFINE last == Len(gpus)
  <2>1. s \in Int /\ s <= last /\ last \in Int /\ \A i \in 1..last : gpus[i] \in Nat
    BY <1>1
  <2> HIDE DEF last
  <2>2. SumFunctionOnSet(gpus, 1..s) <= SumFunctionOnSet(gpus, 1..last)
    BY <2>1, SumGrows
  <2> QED
    BY <2>2 DEF last
<1>5. TotalGpus = SumFunctionOnSet(gpus, 1..Len(gpus))
  BY <1>1 DEF TotalGpus, SumFunction
<1> QED
  BY <1>1, <1>2, <1>3, <1>4, <1>5 DEF GpusBefore

\* Every block is on one of the X servers.
LEMMA ServerOfBlock ==
    ASSUME gpus \in Seq(Nat), NEW b \in Nat, b < TotalGpus
    PROVE  /\ ServerOf(b) \in DOMAIN gpus
           /\ b \in GpusBefore(ServerOf(b))..(GpusBefore(ServerOf(b)) + gpus[ServerOf(b)] - 1)
<1>1. DOMAIN gpus = 1..Len(gpus) /\ Len(gpus) \in Nat
  OBVIOUS
<1> DEFINE Has(s) == b \in GpusBefore(s)..(GpusBefore(s) + gpus[s] - 1)
           Good == {n \in Nat : n <= Len(gpus) /\ b < SumFunctionOnSet(gpus, 1..n) => \E s \in 1..n : Has(s)}
<1>2. 0 \in Good
  <2>1. \A n : n = 0 => 1..n = {}
    OBVIOUS
  <2>2. SumFunctionOnSet(gpus, 1..0) = 0
    BY <2>1, SumOfNone
  <2> QED
    BY <2>2
<1>3. ASSUME NEW n \in Nat, n \in Good
      PROVE  n + 1 \in Good
  <2> SUFFICES ASSUME n + 1 <= Len(gpus), b < SumFunctionOnSet(gpus, 1..(n + 1))
               PROVE  \E s \in 1..(n + 1) : Has(s)
    BY DEF Good
  <2>1. n + 1 \in DOMAIN gpus
    BY <1>1
  <2>2. /\ GpusBefore(n + 1) \in Nat /\ gpus[n + 1] \in Nat
        /\ GpusBefore(n + 1) + gpus[n + 1] = SumFunctionOnSet(gpus, 1..(n + 1))
    BY <2>1, SumOfGpus
  <2>3. GpusBefore(n + 1) = SumFunctionOnSet(gpus, 1..n)
    <3>1. (n + 1) - 1 = n
      OBVIOUS
    <3> QED
      BY <3>1 DEF GpusBefore
  <2>4. CASE b < GpusBefore(n + 1)
    BY <1>3, <2>3, <2>4
  <2>5. CASE GpusBefore(n + 1) <= b
    <3>1. Has(n + 1)
      BY <2>2, <2>5
    <3> QED
      BY <3>1
  <2> QED
    BY <2>2, <2>4, <2>5
<1>4. Nat \subseteq Good
  <2> HIDE DEF Good
  <2> QED
    BY <1>2, <1>3, NatSetInduction
<1>5. b < SumFunctionOnSet(gpus, 1..Len(gpus))
  BY <1>1 DEF TotalGpus, SumFunction
<1>6. \E s \in DOMAIN gpus : b \in GpusBefore(s)..(GpusBefore(s) + gpus[s] - 1)
  BY <1>1, <1>4, <1>5
<1> QED
  BY <1>6 DEF ServerOf

\* The screen of every block.
LEMMA ScreenOfBlock ==
    ASSUME Typed(params), Valid, gpus \in Seq(Nat), NEW b \in 0..(NumBlocks - 1)
    PROVE  /\ ServerOf(b) \in DOMAIN gpus
           /\ Screens(Rects)[ServerOf(b)][b - GpusBefore(ServerOf(b))] = NewScreen(b, Rects)
<1>1. TotalGpus = NumBlocks /\ b \in Nat /\ b < NumBlocks
  BY BlocksCount
<1> DEFINE s == ServerOf(b)
           n == b - GpusBefore(s)
<1>2. s \in DOMAIN gpus /\ b \in GpusBefore(s)..(GpusBefore(s) + gpus[s] - 1)
  BY <1>1, ServerOfBlock
<1>3. GpusBefore(s) \in Nat /\ gpus[s] \in Nat
  BY <1>2, SumOfGpus
<1>4. n \in 0..(gpus[s] - 1) /\ GpusBefore(s) + n = b
  BY <1>1, <1>2, <1>3
<1>5. Screens(Rects)[s][n] = NewScreen(GpusBefore(s) + n, Rects)
  <2> HIDE DEF s, n
  <2> QED
    BY <1>2, <1>4 DEF Screens
<1> QED
  BY <1>2, <1>4, <1>5

\* What a client sees of the screen of a block is its area.
LEMMA SeenArea ==
    ASSUME NEW b, NEW rects
    PROVE  Seen(NewScreen(b, rects)) = Area(b)
BY DEF Seen, NewScreen, Area, Turned, Upright

\* Where a block starts, along its row, and where it ends.
RowWidths(r) == [c \in 0..(params.num_blocks[1] - 1) |-> Area(r * params.num_blocks[1] + c)[1]]
LastHeights == [r \in 0..(params.num_blocks[2] - 1) |->
                   Area(r * params.num_blocks[1] + params.num_blocks[1] - 1)[2]]

LEMMA RectOfBlock ==
    ASSUME Typed(params), Valid, NEW b \in 0..(NumBlocks - 1)
    PROVE  Rects[b] = <<Upto(RowWidths(Row(b)), Col(b)), Upto(LastHeights, Row(b)),
                        Upto(RowWidths(Row(b)), Col(b)) + Area(b)[1],
                        Upto(LastHeights, Row(b)) + Area(b)[2]>>
<1> DEFINE cols == params.num_blocks[1]
           area == [c \in 0..(NumBlocks - 1) |-> Area(c)]
           widths(row) == [c \in 0..(cols - 1) |-> area[row * cols + c][1]]
           heights == [r \in 0..(params.num_blocks[2] - 1) |-> area[r * cols + cols - 1][2]]
           x(c) == SumFunctionOnSet(widths(Row(c)), 0..(Col(c) - 1))
           y(c) == SumFunctionOnSet(heights, 0..(Row(c) - 1))
<1>1. Rects = [c \in 0..(NumBlocks - 1) |-> <<x(c), y(c), x(c) + area[c][1], y(c) + area[c][2]>>]
  BY DEF Rects, Placed
<1>2. cols \in Nat \ {0} /\ params.num_blocks[2] \in Nat \ {0}
  BY ValidParameters
<1>3. ASSUME NEW r \in 0..(params.num_blocks[2] - 1), NEW c \in 0..(cols - 1)
      PROVE  area[r * cols + c] = Area(r * cols + c)
  BY PlaceBlock
<1>4. ASSUME NEW r \in 0..(params.num_blocks[2] - 1)
      PROVE  widths(r) = RowWidths(r)
  <2>1. \A c \in 0..(cols - 1) : area[r * cols + c][1] = Area(r * cols + c)[1]
    BY <1>3
  <2> HIDE DEF area
  <2> QED
    BY <2>1 DEF RowWidths
<1>5. heights = LastHeights
  <2>1. ASSUME NEW r \in 0..(params.num_blocks[2] - 1)
        PROVE  area[r * cols + cols - 1][2] = Area(r * cols + cols - 1)[2]
    <3>1. cols - 1 \in 0..(cols - 1) /\ r * cols + cols - 1 = r * cols + (cols - 1)
      BY <1>2
    <3>2. area[r * cols + (cols - 1)] = Area(r * cols + (cols - 1))
      BY <1>3, <3>1
    <3> HIDE DEF area
    <3> QED
      BY <3>1, <3>2
  <2> HIDE DEF area
  <2> QED
    BY <2>1 DEF LastHeights
<1>6. Row(b) \in 0..(params.num_blocks[2] - 1)
  BY BlockPlace
<1>7. x(b) = Upto(RowWidths(Row(b)), Col(b)) /\ y(b) = Upto(LastHeights, Row(b))
  BY <1>4, <1>5, <1>6 DEF Upto
<1>8. area[b] = Area(b)
  OBVIOUS
<1> HIDE DEF x, y, area
<1> QED
  BY <1>1, <1>7, <1>8

LEMMA RectProps ==
    ASSUME Typed(params), Valid, NEW b \in 0..(NumBlocks - 1)
    PROVE  /\ Rects[b][1] \in Nat /\ Rects[b][2] \in Nat
           /\ Rects[b][3] = Rects[b][1] + Area(b)[1]
           /\ Rects[b][4] = Rects[b][2] + Area(b)[2]
           /\ Area(b)[1] \in Nat /\ Area(b)[2] \in Nat
           /\ Col(b) = 0 => Rects[b][1] = 0
           /\ \A c \in 0..(NumBlocks - 1) :
                Row(c) = Row(b) /\ Col(b) <= Col(c) => Rects[b][1] <= Rects[c][1]
<1>1. params.num_blocks[1] \in Nat /\ params.num_blocks[2] \in Nat
  BY ValidParameters
<1>2. \A i \in 0..(params.num_blocks[1] - 1) : RowWidths(Row(b))[i] \in Nat
  BY AreaType DEF RowWidths
<1>3. \A i \in 0..(params.num_blocks[2] - 1) : LastHeights[i] \in Nat
  BY AreaType DEF LastHeights
<1>4. /\ \A i \in 0..params.num_blocks[1] : Upto(RowWidths(Row(b)), i) \in Nat
      /\ \A i, e \in 0..params.num_blocks[1] :
            i <= e => Upto(RowWidths(Row(b)), i) <= Upto(RowWidths(Row(b)), e)
      /\ Upto(RowWidths(Row(b)), 0) = 0
  BY <1>1, <1>2, UptoProps
<1>5. \A i \in 0..params.num_blocks[2] : Upto(LastHeights, i) \in Nat
  BY <1>1, <1>3, UptoProps
<1>6. Area(b)[1] \in Nat /\ Area(b)[2] \in Nat
  BY AreaType
<1>7. ASSUME NEW c \in 0..(NumBlocks - 1)
      PROVE  Col(c) \in 0..params.num_blocks[1] /\ Row(c) \in 0..params.num_blocks[2]
  BY <1>1, BlockPlace
<1>8. \A c \in 0..(NumBlocks - 1) :
          /\ Rects[c][1] = Upto(RowWidths(Row(c)), Col(c))
          /\ Rects[c][2] = Upto(LastHeights, Row(c))
          /\ Rects[c][3] = Upto(RowWidths(Row(c)), Col(c)) + Area(c)[1]
          /\ Rects[c][4] = Upto(LastHeights, Row(c)) + Area(c)[2]
  BY RectOfBlock
<1> QED
  BY <1>4, <1>5, <1>6, <1>7, <1>8


\* A group of blocks that are put row by row is a run of blocks, as long as it is large.
LEMMA GroupOfBlock ==
    ASSUME Typed(params), Valid, params.group_blocks # None2, GroupsInOrder,
           NEW b \in 0..(NumBlocks - 1)
    PROVE  /\ Product(params.group_blocks) \in Nat \ {0}
           /\ \E q \in Nat : /\ GroupStart(b) = Product(params.group_blocks) * q
                             /\ b - Product(params.group_blocks) * q \in 0..(Product(params.group_blocks) - 1)
<1> DEFINE cols == params.num_blocks[1]
           rows == params.num_blocks[2]
           g == params.group_blocks[1]
           h == params.group_blocks[2]
           r == Row(b)
           c == Col(b)
           size == Product(params.group_blocks)
<1>1. cols \in Nat \ {0} /\ rows \in Nat \ {0} /\ ValidBlocks
  BY ValidParameters
<1>2. g \in Nat \ {0} /\ h \in Nat \ {0} /\ cols % g = 0 /\ rows % h = 0
  <2>1. params.group_blocks \in Pair
    BY ParameterTypes
  <2>2. g \in Int /\ h \in Int
    BY <2>1 DEF Pair
  <2>3. g > 0 /\ h > 0 /\ cols % g = 0 /\ rows % h = 0
    BY <1>1 DEF ValidBlocks
  <2> QED
    BY <2>2, <2>3
<1>3. size = g * h /\ size \in Nat \ {0}
  BY <1>2 DEF Product
<1>4. c \in 0..(cols - 1) /\ r \in 0..(rows - 1) /\ b = cols * r + c
  BY BlockPlace
<1>5. GroupStart(b) = (r - (r % h)) * cols + (c - (c % g))
  BY DEF GroupStart
<1>6. h = 1 \/ g = cols
  BY DEF GroupsInOrder
<1>7. c \in Nat /\ r \in Nat
  BY <1>1, <1>4
<1> HIDE DEF cols, rows, g, h, r, c, size
<1>8. CASE h = 1
  <2>1. r % h = 0 /\ size = g
    BY <1>2, <1>3, <1>7, <1>8
  <2>2. PICK k \in Nat : cols = g * k
    <3>1. cols = g * (cols \div g) + (cols % g) /\ cols \div g \in Nat
      BY <1>1, <1>2, Division
    <3> DEFINE k == cols \div g
    <3>2. g * k \in Nat
      <4>1. g \in Nat /\ k \in Nat
        BY <1>2, <3>1
      <4> HIDE DEF k
      <4> QED
        BY <4>1
    <3>3. cols = g * (cols \div g)
      BY <1>2, <3>1, <3>2
    <3> QED
      BY <3>1, <3>3
  <2>3. c \div g \in Nat /\ c % g \in 0..(g - 1) /\ c = g * (c \div g) + (c % g)
    BY <1>2, <1>7, Division
  <2> DEFINE q == k * r + c \div g
             e == c % g
  <2>4. q \in Nat
    BY <1>7, <2>2, <2>3
  <2>5. cols * r = g * (k * r)
    <3>1. (g * k) * r = g * (k * r)
      BY <1>2, <1>7, <2>2
    <3> QED
      BY <2>2, <3>1
  <2>6. g * q = g * (k * r) + g * (c \div g)
    <3>1. k * r \in Nat /\ c \div g \in Nat /\ g \in Nat
      BY <1>2, <1>7, <2>2, <2>3
    <3>2. ASSUME NEW x \in Nat, NEW y \in Nat
          PROVE  g * (x + y) = g * x + g * y
      BY <1>2
    <3> QED
      BY <3>1, <3>2
  <2>7. GroupStart(b) = r * cols + (c - e)
    <3>1. r - 0 = r /\ e \in Nat
      BY <1>7, <1>2, <2>3
    <3> QED
      BY <1>5, <2>1, <3>1
  <2>8. r * cols = cols * r /\ cols * r \in Nat /\ g * (c \div g) \in Nat
    BY <1>1, <1>2, <1>7, <2>3
  <2>9. e \in 0..(g - 1) /\ c = g * (c \div g) + e
    BY <2>3
  <2> HIDE DEF q, e
  <2>10. GroupStart(b) = g * q /\ b - g * q = e
    BY <1>2, <1>4, <1>7, <2>5, <2>6, <2>7, <2>8, <2>9
  <2>11. GroupStart(b) = size * q /\ b - size * q \in 0..(size - 1)
    BY <2>1, <2>9, <2>10
  <2> QED
    BY <1>3, <2>4, <2>11 DEF size
<1>9. CASE g = cols
  <2>1. c % g = c
    BY <1>2, <1>4, <1>9
  <2>2. r \div h \in Nat /\ r % h \in 0..(h - 1) /\ r = h * (r \div h) + (r % h)
    BY <1>2, <1>7, Division
  <2> DEFINE q == r \div h
             e == r % h
  <2>3. e * cols + c \in 0..(cols * h - 1)
    BY <1>1, <1>2, <1>4, <2>2, GridPlace
  <2>4. q \in Nat /\ e \in Nat /\ r = h * q + e /\ h * q \in Nat
    BY <1>2, <2>2
  <2>5. GroupStart(b) = (r - e) * cols + (c - c)
    BY <1>5, <2>1
  <2>6. size = cols * h
    BY <1>3, <1>9
  <2> HIDE DEF q, e
  <2>7. r - e = h * q /\ c - c = 0
    BY <1>7, <2>4
  <2>8. (h * q) * cols = (cols * h) * q
    BY <1>1, <1>2, <2>4
  <2>9. GroupStart(b) = size * q
    <3>1. (h * q) * cols \in Nat
      BY <1>1, <2>4
    <3> QED
      BY <2>5, <2>6, <2>7, <2>8, <3>1
  <2>10. cols * r = (cols * h) * q + e * cols
    <3>1. cols * (h * q + e) = cols * (h * q) + cols * e
      BY <1>1, <2>4
    <3>2. cols * (h * q) = (cols * h) * q /\ cols * e = e * cols
      BY <1>1, <1>2, <2>4
    <3> QED
      BY <2>4, <3>1, <3>2
  <2>11. (cols * h) * q \in Nat /\ e * cols \in Nat
    BY <1>1, <1>2, <2>4
  <2>12. b - size * q = e * cols + c
    BY <1>4, <1>7, <2>6, <2>10, <2>11
  <2> QED
    BY <1>3, <2>3, <2>4, <2>6, <2>9, <2>12 DEF size
<1> QED
  BY <1>6, <1>8, <1>9

\* X servers that drive one group each have the blocks of that group.
LEMMA GroupsBefore ==
    ASSUME gpus \in Seq(Nat), NEW size \in Nat, \A s \in DOMAIN gpus : gpus[s] = size
    PROVE  \A s \in DOMAIN gpus : GpusBefore(s) = size * (s - 1)
<1>1. DOMAIN gpus = 1..Len(gpus) /\ Len(gpus) \in Nat
  OBVIOUS
<1> DEFINE Good == {n \in Nat : n <= Len(gpus) => SumFunctionOnSet(gpus, 1..n) = size * n}
<1>2. 0 \in Good
  <2>1. \A n : n = 0 => 1..n = {}
    OBVIOUS
  <2>2. SumFunctionOnSet(gpus, 1..0) = 0
    BY <2>1, SumOfNone
  <2> QED
    BY <2>2
<1>3. ASSUME NEW n \in Nat, n \in Good
      PROVE  n + 1 \in Good
  <2> SUFFICES ASSUME n + 1 <= Len(gpus)
               PROVE  SumFunctionOnSet(gpus, 1..(n + 1)) = size * (n + 1)
    BY DEF Good
  <2>1. n + 1 \in DOMAIN gpus
    BY <1>1
  <2>2. GpusBefore(n + 1) + gpus[n + 1] = SumFunctionOnSet(gpus, 1..(n + 1))
    BY <2>1, SumOfGpus
  <2>3. GpusBefore(n + 1) = SumFunctionOnSet(gpus, 1..n)
    <3>1. (n + 1) - 1 = n
      OBVIOUS
    <3> QED
      BY <3>1 DEF GpusBefore
  <2>4. SumFunctionOnSet(gpus, 1..n) = size * n
    BY <1>3
  <2>5. size * (n + 1) = size * n + size
    OBVIOUS
  <2> QED
    BY <2>1, <2>2, <2>3, <2>4, <2>5
<1>4. Nat \subseteq Good
  <2> HIDE DEF Good
  <2> QED
    BY <1>2, <1>3, NatSetInduction
<1>5. ASSUME NEW s \in DOMAIN gpus
      PROVE  GpusBefore(s) = size * (s - 1)
  <2>1. s - 1 \in Nat /\ s - 1 <= Len(gpus)
    BY <1>1
  <2> QED
    BY <1>4, <2>1 DEF GpusBefore
<1> QED
  BY <1>5

LEMMA GroupOfServer ==
    ASSUME Typed(params), Valid, gpus \in Seq(Nat), params.group_blocks # None2, GroupsInOrder,
           NEW s \in DOMAIN gpus, NEW n \in 0..(gpus[s] - 1)
    PROVE  /\ GpusBefore(s) + n \in 0..(NumBlocks - 1)
           /\ GroupStart(GpusBefore(s) + n) = GpusBefore(s)
<1> DEFINE size == Product(params.group_blocks)
           b == GpusBefore(s) + n
<1>1. TotalGpus = NumBlocks /\ NumBlocks \in Nat
  BY BlocksCount
<1>2. GpusBefore(s) \in Nat /\ gpus[s] \in Nat /\ GpusBefore(s) + gpus[s] <= TotalGpus
  BY SumOfGpus
<1>3. b \in 0..(NumBlocks - 1)
  BY <1>1, <1>2
<1>4. size \in Nat \ {0} /\ \E q \in Nat : GroupStart(b) = size * q /\ b - size * q \in 0..(size - 1)
  BY <1>3, GroupOfBlock
<1>5. \A t \in DOMAIN gpus : gpus[t] = size
  BY DEF GroupsInOrder
<1>6. GpusBefore(s) = size * (s - 1) /\ n \in 0..(size - 1) /\ s - 1 \in Nat
  <2>1. size \in Nat
    BY <1>4
  <2> HIDE DEF size
  <2>2. GpusBefore(s) = size * (s - 1)
    BY <1>5, <2>1, GroupsBefore
  <2>3. s \in 1..Len(gpus)
    OBVIOUS
  <2> QED
    BY <1>5, <2>2, <2>3
<1>7. PICK q \in Nat : GroupStart(b) = size * q /\ b - size * q \in 0..(size - 1)
  BY <1>4
<1> HIDE DEF size
<1>8. b = size * (s - 1) + n /\ b = size * q + (b - size * q)
  <2>1. size * q \in Nat /\ b \in Nat
    BY <1>2, <1>4
  <2> QED
    BY <1>6, <2>1
<1>9. b \div size = s - 1
  <2> HIDE DEF b
  <2>1. (size * (s - 1) + n) \div size = s - 1
    BY <1>4, <1>6, DivisionUnique
  <2> QED
    BY <1>8, <2>1
<1>10. b \div size = q
  <2> DEFINE e == b - size * q
  <2>1. (size * q + e) \div size = q
    BY <1>4, <1>7, DivisionUnique
  <2> HIDE DEF b
  <2> QED
    BY <1>8, <2>1
<1> QED
  BY <1>3, <1>6, <1>7, <1>9, <1>10


LEMMA ScreensApartHold ==
    ASSUME Typed(params), Valid, gpus \in Seq(Nat), screens = Screens(Rects),
           params.group_blocks # None2, GroupsInOrder, Regular
    PROVE  ScreensApart
<1> SUFFICES ASSUME NEW s \in DOMAIN screens, NEW n \in DOMAIN screens[s], NEW m \in DOMAIN screens[s], n # m
             PROVE  Apart(At(screens[s][n].position, Seen(screens[s][n])),
                          At(screens[s][m].position, Seen(screens[s][m])))
  BY DEF ScreensApart
<1> DEFINE first == GpusBefore(s)
           b == first + n
           c == first + m
<1>1. s \in DOMAIN gpus /\ n \in 0..(gpus[s] - 1) /\ m \in 0..(gpus[s] - 1)
      /\ screens[s][n] = NewScreen(b, Rects) /\ screens[s][m] = NewScreen(c, Rects)
  BY ScreenOf
<1>2. first \in Nat /\ gpus[s] \in Nat
  BY <1>1, SumOfGpus
<1>3. /\ b \in 0..(NumBlocks - 1) /\ GroupStart(b) = first
      /\ c \in 0..(NumBlocks - 1) /\ GroupStart(c) = first
  BY <1>1, GroupOfServer
<1>4. b # c /\ 0 \in 0..(gpus[s] - 1)
  BY <1>1, <1>2
<1>5. first \in 0..(NumBlocks - 1)
  <2>1. first + 0 \in 0..(NumBlocks - 1)
    BY <1>1, <1>4, GroupOfServer
  <2> QED
    BY <1>2, <2>1
<1>6. Apart(Rects[b], Rects[c])
  BY <1>3, <1>4, RectsApart
<1> HIDE DEF first, b, c
<1>7. ASSUME NEW k \in {b, c}
      PROVE  /\ NewScreen(k, Rects).position
                = <<Rects[k][1] - Rects[first][1], Rects[k][2] - Rects[first][2]>>
             /\ Seen(NewScreen(k, Rects)) = Area(k)
             /\ Rects[k][1] \in Nat /\ Rects[k][2] \in Nat
             /\ Rects[k][3] = Rects[k][1] + Area(k)[1] /\ Rects[k][4] = Rects[k][2] + Area(k)[2]
             /\ Area(k)[1] \in Nat /\ Area(k)[2] \in Nat
  <2>1. k \in 0..(NumBlocks - 1) /\ GroupStart(k) = first
    BY <1>3
  <2>2. NewScreen(k, Rects).position = [d \in 1..2 |-> Rects[k][d] - Rects[first][d]]
    BY <2>1 DEF NewScreen, Position
  <2>3. [d \in 1..2 |-> Rects[k][d] - Rects[first][d]]
        = <<Rects[k][1] - Rects[first][1], Rects[k][2] - Rects[first][2]>>
    OBVIOUS
  <2>4. Seen(NewScreen(k, Rects)) = Area(k)
    BY SeenArea
  <2>5. /\ Rects[k][1] \in Nat /\ Rects[k][2] \in Nat
        /\ Rects[k][3] = Rects[k][1] + Area(k)[1] /\ Rects[k][4] = Rects[k][2] + Area(k)[2]
        /\ Area(k)[1] \in Nat /\ Area(k)[2] \in Nat
    BY <2>1, RectProps
  <2> QED
    BY <2>2, <2>3, <2>4, <2>5
<1>8. Rects[first][1] \in Nat /\ Rects[first][2] \in Nat
  BY <1>5, RectProps
<1>9. \/ Rects[b][3] <= Rects[c][1] \/ Rects[c][3] <= Rects[b][1]
      \/ Rects[b][4] <= Rects[c][2] \/ Rects[c][4] <= Rects[b][2]
  BY <1>6 DEF Apart
<1> DEFINE at(k) == At(NewScreen(k, Rects).position, Seen(NewScreen(k, Rects)))
<1>10. ASSUME NEW k \in {b, c}
       PROVE  /\ at(k)[1] = Rects[k][1] - Rects[first][1] /\ at(k)[2] = Rects[k][2] - Rects[first][2]
              /\ at(k)[3] = Rects[k][3] - Rects[first][1] /\ at(k)[4] = Rects[k][4] - Rects[first][2]
  <2>1. /\ Rects[k][1] \in Nat /\ Rects[k][2] \in Nat
        /\ Rects[k][3] = Rects[k][1] + Area(k)[1] /\ Rects[k][4] = Rects[k][2] + Area(k)[2]
        /\ Area(k)[1] \in Nat /\ Area(k)[2] \in Nat
    BY <1>7
  <2>2. /\ NewScreen(k, Rects).position
           = <<Rects[k][1] - Rects[first][1], Rects[k][2] - Rects[first][2]>>
        /\ Seen(NewScreen(k, Rects)) = Area(k)
    BY <1>7
  <2>3. at(k) = <<Rects[k][1] - Rects[first][1], Rects[k][2] - Rects[first][2],
                  (Rects[k][1] - Rects[first][1]) + Area(k)[1],
                  (Rects[k][2] - Rects[first][2]) + Area(k)[2]>>
    BY <2>2 DEF At
  <2> HIDE DEF at
  <2>4. Rects[first][1] \in Nat /\ Rects[first][2] \in Nat
    BY <1>8
  <2>5. /\ at(k)[1] = Rects[k][1] - Rects[first][1]
        /\ at(k)[2] = Rects[k][2] - Rects[first][2]
        /\ at(k)[3] = (Rects[k][1] - Rects[first][1]) + Area(k)[1]
        /\ at(k)[4] = (Rects[k][2] - Rects[first][2]) + Area(k)[2]
    BY <2>3
  <2>6. ASSUME NEW x \in Nat, NEW y \in Nat, NEW z \in Nat
        PROVE  (x - y) + z = (x + z) - y
    OBVIOUS
  <2>7. /\ (Rects[k][1] - Rects[first][1]) + Area(k)[1] = (Rects[k][1] + Area(k)[1]) - Rects[first][1]
        /\ (Rects[k][2] - Rects[first][2]) + Area(k)[2] = (Rects[k][2] + Area(k)[2]) - Rects[first][2]
    BY <2>1, <2>4, <2>6, Zenon
  <2> QED
    BY <2>1, <2>5, <2>7, Zenon
<1>11. \A k \in {b, c} : /\ Rects[k][1] \in Nat /\ Rects[k][2] \in Nat
                         /\ Rects[k][3] \in Nat /\ Rects[k][4] \in Nat
  <2>1. ASSUME NEW k \in {b, c}
        PROVE  /\ Rects[k][1] \in Nat /\ Rects[k][2] \in Nat
               /\ Rects[k][3] \in Nat /\ Rects[k][4] \in Nat
    <3>1. /\ Rects[k][1] \in Nat /\ Rects[k][2] \in Nat
          /\ Rects[k][3] = Rects[k][1] + Area(k)[1] /\ Rects[k][4] = Rects[k][2] + Area(k)[2]
          /\ Area(k)[1] \in Nat /\ Area(k)[2] \in Nat
      BY <1>7
    <3> QED
      BY <3>1
  <2> QED
    BY <2>1
<1> HIDE DEF at
<1>12. Apart(at(b), at(c))
  <2>1. /\ at(b)[1] = Rects[b][1] - Rects[first][1] /\ at(b)[2] = Rects[b][2] - Rects[first][2]
        /\ at(b)[3] = Rects[b][3] - Rects[first][1] /\ at(b)[4] = Rects[b][4] - Rects[first][2]
    BY <1>10
  <2>2. /\ at(c)[1] = Rects[c][1] - Rects[first][1] /\ at(c)[2] = Rects[c][2] - Rects[first][2]
        /\ at(c)[3] = Rects[c][3] - Rects[first][1] /\ at(c)[4] = Rects[c][4] - Rects[first][2]
    BY <1>10
  <2>3. /\ Rects[b][1] \in Nat /\ Rects[b][2] \in Nat /\ Rects[b][3] \in Nat /\ Rects[b][4] \in Nat
        /\ Rects[c][1] \in Nat /\ Rects[c][2] \in Nat /\ Rects[c][3] \in Nat /\ Rects[c][4] \in Nat
    BY <1>11
  <2>4. \/ at(b)[3] <= at(c)[1] \/ at(c)[3] <= at(b)[1]
        \/ at(b)[4] <= at(c)[2] \/ at(c)[4] <= at(b)[2]
    <3>1. ASSUME NEW x \in Nat, NEW y \in Nat, NEW z \in Nat, x <= y
          PROVE  x - z <= y - z
      BY <3>1
    <3>2. Rects[b][3] <= Rects[c][1] => at(b)[3] <= at(c)[1]
      BY <1>8, <2>1, <2>2, <2>3, <3>1
    <3>3. Rects[c][3] <= Rects[b][1] => at(c)[3] <= at(b)[1]
      BY <1>8, <2>1, <2>2, <2>3, <3>1
    <3>4. Rects[b][4] <= Rects[c][2] => at(b)[4] <= at(c)[2]
      BY <1>8, <2>1, <2>2, <2>3, <3>1
    <3>5. Rects[c][4] <= Rects[b][2] => at(c)[4] <= at(b)[2]
      BY <1>8, <2>1, <2>2, <2>3, <3>1
    <3> QED
      BY <1>9, <3>2, <3>3, <3>4, <3>5
  <2> QED
    BY <2>4 DEF Apart
<1> QED
  BY <1>1, <1>12 DEF at

\* The smallest and the largest of numbers are the ones that are.
LEMMA MaxIs ==
    ASSUME NEW S, S \subseteq Int, IsFiniteSet(S), NEW m \in S, \A x \in S : x <= m
    PROVE  Max(S) = m
<1>1. Max(S) \in S /\ \A x \in S : x <= Max(S)
  BY MaxProperties
<1>2. Max(S) \in Int /\ m \in Int /\ Max(S) <= m /\ m <= Max(S)
  BY <1>1
<1> QED
  BY <1>2

LEMMA MinIs ==
    ASSUME NEW S, S \subseteq Int, IsFiniteSet(S), NEW m \in S, \A x \in S : m <= x
    PROVE  Min(S) = m
<1>1. Min(S) \in S /\ \A x \in S : Min(S) <= x
  BY MinProperties
<1>2. Min(S) \in Int /\ m \in Int /\ Min(S) <= m /\ m <= Min(S)
  BY <1>1
<1> QED
  BY <1>2

\* With Xinerama, the width of the screens of an X server is that of their group.
LEMMA CombinedWidth ==
    ASSUME Typed(params), Valid, gpus \in Seq(Nat), params.group_blocks # None2, GroupsInOrder,
           NEW c0 \in 0..(NumBlocks - 1)
    PROVE  LET b == GroupStart(c0)
               box == Box({c \in DOMAIN Rects : GroupStart(c) = b}, Rects)
           IN  Combined(Screens(Rects)[ServerOf(b)])[1] = box[3] - box[1]
<1> DEFINE b == GroupStart(c0)
           G == {c \in DOMAIN Rects : GroupStart(c) = b}
           s == ServerOf(b)
           size == Product(params.group_blocks)
           scr == Screens(Rects)[s]
<1>1. DOMAIN Rects = 0..(NumBlocks - 1)
  BY DEF Rects, Placed
<1>2. NumBlocks \in Nat \ {0} /\ TotalGpus = NumBlocks
  BY BlocksCount
<1>3. size \in Nat \ {0} /\ \A t \in DOMAIN gpus : gpus[t] = size
  BY GroupOfBlock DEF GroupsInOrder
<1>4. ASSUME NEW c \in 0..(NumBlocks - 1)
      PROVE  \E q \in Nat : GroupStart(c) = size * q /\ c - size * q \in 0..(size - 1)
  BY GroupOfBlock
<1>5. PICK q \in Nat : b = size * q /\ c0 - size * q \in 0..(size - 1)
  BY <1>4
<1> HIDE DEF b, size
<1>6. b \in Nat /\ b <= c0 /\ b \in 0..(NumBlocks - 1)
  <2>1. size * q \in Nat
    BY <1>3
  <2> QED
    BY <1>2, <1>5, <2>1
<1>7. s \in DOMAIN gpus /\ b \in GpusBefore(s)..(GpusBefore(s) + gpus[s] - 1)
  BY <1>2, <1>6, ServerOfBlock
<1> HIDE DEF s
<1>8. GpusBefore(s) = b /\ gpus[s] = size
  <2>1. GpusBefore(s) = size * (s - 1) /\ gpus[s] = size /\ s - 1 \in Nat
    <3>1. size \in Nat
      BY <1>3
    <3>2. GpusBefore(s) = size * (s - 1)
      BY <1>3, <1>7, <3>1, GroupsBefore
    <3>3. s - 1 \in Nat
      <4>1. s \in 1..Len(gpus) /\ Len(gpus) \in Nat
        BY <1>7
      <4> QED
        BY <4>1
    <3> QED
      BY <1>3, <1>7, <3>2, <3>3
  <2> DEFINE p == size * (s - 1)
             e == b - p
  <2>2. e \in 0..(size - 1) /\ b = p + e
    <3>1. p \in Nat
      BY <1>3, <2>1
    <3>2. GpusBefore(s) = p /\ gpus[s] = size
      BY <2>1
    <3> HIDE DEF p
    <3>3. b \in p..(p + size - 1)
      BY <1>7, <3>2
    <3> QED
      BY <1>3, <3>1, <3>3
  <2> HIDE DEF e
  <2>3. b \div size = s - 1 /\ b % size = e
    BY <1>3, <2>1, <2>2, DivisionUnique
  <2>4. b \div size = q /\ b % size = 0
    <3>1. 0 \in 0..(size - 1) /\ size * q + 0 = b
      <4>1. size * q \in Nat
        BY <1>3
      <4> QED
        BY <1>3, <1>5, <4>1
    <3>2. (size * q + 0) \div size = q /\ (size * q + 0) % size = 0
      BY <1>3, <3>1, DivisionUnique
    <3> QED
      BY <3>1, <3>2
  <2> QED
    BY <1>5, <2>1, <2>3, <2>4
<1>9. \A n \in 0..(size - 1) : b + n \in 0..(NumBlocks - 1) /\ GroupStart(b + n) = b
  BY <1>7, <1>8, GroupOfServer
<1>10. ASSUME NEW c \in G
       PROVE  c \in 0..(NumBlocks - 1) /\ GroupStart(c) = b /\ c - b \in 0..(size - 1) /\ b + (c - b) = c
  <2>1. c \in 0..(NumBlocks - 1) /\ GroupStart(c) = b
    BY <1>1
  <2>2. PICK k \in Nat : GroupStart(c) = size * k /\ c - size * k \in 0..(size - 1)
    BY <1>4, <2>1
  <2> QED
    BY <1>6, <2>1, <2>2
<1>11. DOMAIN scr = 0..(size - 1) /\ \A n \in 0..(size - 1) : scr[n] = NewScreen(b + n, Rects)
  BY <1>7, <1>8 DEF Screens
<1> HIDE DEF scr
\* The first block of a group is at its left.
<1>12. ASSUME NEW c \in G
       PROVE  Rects[b][1] <= Rects[c][1]
  <2> DEFINE cols == params.num_blocks[1]
             g == params.group_blocks
  <2>1. c \in 0..(NumBlocks - 1) /\ GroupStart(c) = b
    BY <1>10
  <2>2. /\ Col(c) \in 0..(cols - 1) /\ Row(c) \in 0..(params.num_blocks[2] - 1)
        /\ cols \in Nat \ {0} /\ params.num_blocks[2] \in Nat
    BY <2>1, BlockPlace, ValidParameters
  <2>3. g[1] \in Nat \ {0} /\ g[2] \in Nat \ {0}
    <3>1. g \in Pair /\ ValidBlocks
      BY ParameterTypes, ValidParameters
    <3> QED
      BY <3>1 DEF Pair, ValidBlocks
  <2>4. b = (Row(c) - (Row(c) % g[2])) * cols + (Col(c) - (Col(c) % g[1]))
    BY <2>1 DEF GroupStart
  <2> DEFINE i == Row(c) - (Row(c) % g[2])
             j == Col(c) - (Col(c) % g[1])
  <2>5. i \in 0..(params.num_blocks[2] - 1) /\ j \in 0..(cols - 1) /\ j <= Col(c)
    <3>1. ASSUME NEW x \in Nat, NEW d \in Nat \ {0}
          PROVE  x - (x % d) \in 0..x
      <4>1. x \div d \in Nat /\ x % d \in 0..(d - 1) /\ x = d * (x \div d) + (x % d)
        BY Division
      <4>2. d * (x \div d) \in Nat
        <5> DEFINE k == x \div d
        <5>1. k \in Nat
          BY <4>1
        <5> HIDE DEF k
        <5> QED
          BY <5>1
      <4> QED
        BY <4>1, <4>2
    <3>2. i \in 0..Row(c) /\ j \in 0..Col(c)
      <4>1. Row(c) \in Nat /\ Col(c) \in Nat
        BY <2>2
      <4>2. Row(c) - (Row(c) % g[2]) \in 0..Row(c)
        <5> DEFINE x == Row(c)
                   d == g[2]
        <5>1. x \in Nat /\ d \in Nat \ {0}
          BY <2>3, <4>1
        <5> HIDE DEF x, d
        <5>2. x - (x % d) \in 0..x
          BY <3>1, <5>1
        <5> QED
          BY <5>2 DEF x, d
      <4>3. Col(c) - (Col(c) % g[1]) \in 0..Col(c)
        <5> DEFINE x == Col(c)
                   d == g[1]
        <5>1. x \in Nat /\ d \in Nat \ {0}
          BY <2>3, <4>1
        <5> HIDE DEF x, d
        <5>2. x - (x % d) \in 0..x
          BY <3>1, <5>1
        <5> QED
          BY <5>2 DEF x, d
      <4> QED
        BY <4>2, <4>3
    <3> HIDE DEF i, j
    <3>3. i \in Nat /\ i <= Row(c) /\ j \in Nat /\ j <= Col(c)
      BY <2>2, <3>2
    <3> DEFINE down == Row(c)
               across == Col(c)
               rows == params.num_blocks[2]
    <3>4. i \in Nat /\ i <= down /\ j \in Nat /\ j <= across /\ down \in 0..(rows - 1) /\ across \in 0..(cols - 1)
          /\ rows \in Nat /\ cols \in Nat
      BY <2>2, <3>3
    <3> HIDE DEF down, across, rows, cols
    <3>5. i \in 0..(rows - 1) /\ j \in 0..(cols - 1) /\ j <= across
      BY <3>4
    <3> QED
      BY <3>5 DEF down, across, rows
  <2>6. (g[2] = 1 => i = Row(c)) /\ (g[1] = cols => j = 0)
    <3>1. Row(c) \in Nat /\ Col(c) \in 0..(cols - 1) /\ cols \in Nat \ {0}
      BY <2>2
    <3> HIDE DEF cols
    <3>2. Row(c) % 1 = 0 /\ Row(c) - 0 = Row(c)
      BY <3>1
    <3>3. Col(c) % cols = Col(c) /\ Col(c) - Col(c) = 0
      <4>1. (cols * 0 + Col(c)) % cols = Col(c)
        BY <3>1, DivisionUnique
      <4>2. cols * 0 + Col(c) = Col(c) /\ Col(c) - Col(c) = 0
        BY <3>1
      <4> QED
        BY <4>1, <4>2
    <3> QED
      BY <3>2, <3>3 DEF cols
  <2> HIDE DEF i, j
  <2>7. Row(b) = i /\ Col(b) = j
    BY <2>4, <2>5, PlaceBlock DEF i, j
  <2>8. g[2] = 1 \/ g[1] = cols
    BY DEF GroupsInOrder
  <2>9. CASE g[2] = 1
    BY <1>6, <2>1, <2>5, <2>6, <2>7, <2>9, RectProps
  <2>10. CASE g[1] = cols
    <3>1. Rects[b][1] = 0 /\ Rects[c][1] \in Nat
      BY <1>6, <2>1, <2>6, <2>7, <2>10, RectProps
    <3> QED
      BY <3>1
  <2> QED
    BY <2>8, <2>9, <2>10
<1>13. b \in G
  <2>1. 0 \in 0..(size - 1) /\ b + 0 = b
    BY <1>3, <1>6
  <2> QED
    BY <1>1, <1>6, <1>9, <2>1
<1>14. IsFiniteSet(G) /\ IsFiniteSet(DOMAIN scr) /\ G \subseteq 0..(NumBlocks - 1)
  <2>1. IsFiniteSet(0..(NumBlocks - 1)) /\ IsFiniteSet(0..(size - 1))
    BY <1>2, <1>3, FS_Interval
  <2>2. G \subseteq 0..(NumBlocks - 1)
    BY <1>1
  <2> HIDE DEF G
  <2> QED
    BY <1>11, <2>1, <2>2, FS_Subset
<1> HIDE DEF G
<1>15. \A c \in G : /\ Rects[c][1] \in Nat /\ Rects[c][3] = Rects[c][1] + Area(c)[1]
                    /\ Rects[c][3] \in Nat /\ Area(c)[1] \in Nat
  <2>1. ASSUME NEW c \in G
        PROVE  /\ Rects[c][1] \in Nat /\ Rects[c][3] = Rects[c][1] + Area(c)[1] /\ Area(c)[1] \in Nat
    BY <1>14, RectProps
  <2> QED
    BY <2>1
<1> DEFINE lefts == {Rects[c][1] : c \in G}
           rights == {Rects[c][3] : c \in G}
           far == {scr[n].position[1] + Seen(scr[n])[1] : n \in DOMAIN scr}
<1>16. Min(lefts) = Rects[b][1]
  <2> DEFINE F == [c \in G |-> Rects[c][1]]
  <2>1. lefts = {F[c] : c \in G}
    OBVIOUS
  <2>2. lefts \subseteq Int /\ Rects[b][1] \in lefts /\ \A x \in lefts : Rects[b][1] <= x
    BY <1>12, <1>13, <1>15
  <2> HIDE DEF lefts, F
  <2>3. IsFiniteSet(lefts)
    BY <1>14, <2>1, ImageFinite
  <2> QED
    BY <2>2, <2>3, MinIs
<1>17. Max(rights) \in rights /\ \A x \in rights : x <= Max(rights)
  <2> DEFINE F == [c \in G |-> Rects[c][3]]
  <2>1. rights = {F[c] : c \in G}
    OBVIOUS
  <2>2. rights \subseteq Int /\ rights # {}
    BY <1>13, <1>15
  <2> HIDE DEF rights, F
  <2>3. IsFiniteSet(rights)
    BY <1>14, <2>1, ImageFinite
  <2> QED
    BY <2>2, <2>3, MaxProperties
<1>18. ASSUME NEW n \in 0..(size - 1)
       PROVE  b + n \in G /\ scr[n].position[1] + Seen(scr[n])[1] = Rects[b + n][3] - Rects[b][1]
  <2>1. b + n \in G
    BY <1>1, <1>9 DEF G
  <2>2. scr[n] = NewScreen(b + n, Rects)
    BY <1>11
  <2>3. scr[n].position = [d \in 1..2 |-> Rects[b + n][d] - Rects[b][d]]
    BY <1>9, <2>2 DEF NewScreen, Position
  <2>4. Seen(scr[n]) = Area(b + n)
    BY <2>2, SeenArea
  <2>5. scr[n].position[1] = Rects[b + n][1] - Rects[b][1]
    BY <2>3
  <2>6. /\ Rects[b + n][1] \in Nat /\ Rects[b + n][3] = Rects[b + n][1] + Area(b + n)[1]
        /\ Area(b + n)[1] \in Nat /\ Rects[b][1] \in Nat
    BY <1>13, <1>15, <2>1
  <2> QED
    BY <2>1, <2>4, <2>5, <2>6
<1>19. Max(far) = Max(rights) - Rects[b][1]
  <2> DEFINE F == [n \in DOMAIN scr |-> scr[n].position[1] + Seen(scr[n])[1]]
  <2>1. far = {F[n] : n \in DOMAIN scr}
    OBVIOUS
  <2>2. IsFiniteSet(far)
    <3> HIDE DEF far, F
    <3> QED
      BY <1>14, <2>1, ImageFinite
  <2>3. far \subseteq Int /\ \A x \in far : x <= Max(rights) - Rects[b][1]
    <3>1. ASSUME NEW x \in far
          PROVE  x \in Int /\ x <= Max(rights) - Rects[b][1]
      <4>1. PICK n \in 0..(size - 1) : x = scr[n].position[1] + Seen(scr[n])[1]
        BY <1>11
      <4>2. b + n \in G /\ x = Rects[b + n][3] - Rects[b][1]
        BY <1>18, <4>1
      <4>3. Rects[b + n][3] \in rights /\ Rects[b + n][3] \in Nat /\ Rects[b][1] \in Nat
        BY <1>13, <1>15, <4>2
      <4>4. Rects[b + n][3] <= Max(rights) /\ Max(rights) \in Nat
        <5>1. \A z \in rights : z \in Nat
          BY <1>15
        <5> HIDE DEF rights
        <5> QED
          BY <1>17, <4>3, <5>1
      <4> HIDE DEF rights
      <4> QED
        BY <4>2, <4>3, <4>4
    <3> QED
      BY <3>1
  <2>4. Max(rights) - Rects[b][1] \in far
    <3>1. PICK c \in G : Max(rights) = Rects[c][3]
      BY <1>17
    <3>2. c - b \in 0..(size - 1) /\ b + (c - b) = c
      BY <1>10, <3>1 DEF G
    <3> DEFINE n == c - b
    <3>3. n \in 0..(size - 1) /\ b + n = c
      BY <3>2
    <3> HIDE DEF n
    <3>4. scr[n].position[1] + Seen(scr[n])[1] = Max(rights) - Rects[b][1]
      BY <1>18, <3>1, <3>3
    <3>5. n \in DOMAIN scr
      BY <1>11, <3>3
    <3> HIDE DEF rights
    <3> QED
      BY <3>4, <3>5
  <2> HIDE DEF far, rights
  <2> QED
    BY <2>2, <2>3, <2>4, MaxIs
<1>20. Combined(scr)[1] = Max(far)
  BY DEF Combined
<1>21. Box(G, Rects)[3] = Max(rights) /\ Box(G, Rects)[1] = Min(lefts)
  BY DEF Box
<1> HIDE DEF far, rights, lefts
<1>22. Combined(scr)[1] = Box(G, Rects)[3] - Box(G, Rects)[1]
  BY <1>16, <1>19, <1>20, <1>21
<1> QED
  BY <1>22 DEF scr, s, G, b

LEMMA DrawnWholeHolds == IInv => DrawnWhole
<1> SUFFICES ASSUME IInv, Done, params.group_blocks = None2 \/ GroupsInOrder
             PROVE  /\ Regular => ScreensApart
                    /\ \A b \in DOMAIN effective :
                        LET e == effective[b] IN
                        /\ e.resolution[1] = e.rect[3] - e.rect[1]
                        /\ ~params.combine_displays => e.resolution[2] = e.rect[4] - e.rect[2]
  BY DEF DrawnWhole, Regular
<1>1. /\ Typed(params) /\ Valid /\ gpus \in Seq(Nat) /\ screens = Screens(Rects)
      /\ effective = Effective(Screens(Rects), Rects)
  BY DEF IInv, TypesOK, LaidOut
<1>2. ASSUME Regular
      PROVE  ScreensApart
  <2>1. CASE params.group_blocks = None2
    BY <2>1 DEF ScreensApart
  <2>2. CASE params.group_blocks # None2
    BY <1>1, <1>2, <2>2, ScreensApartHold
  <2> QED
    BY <2>1, <2>2
<1>3. DOMAIN Rects = 0..(NumBlocks - 1)
  BY DEF Rects, Placed
<1>4. ASSUME params.combine_displays, NEW b \in DOMAIN effective
      PROVE  effective[b].resolution[1] = effective[b].rect[3] - effective[b].rect[1]
  <2>1. PICK c0 \in 0..(NumBlocks - 1) : b = GroupStart(c0)
    BY <1>1, <1>3, <1>4 DEF Effective
  <2>2. /\ effective[b].rect = Box({c \in DOMAIN Rects : GroupStart(c) = b}, Rects)
        /\ effective[b].resolution = Combined(Screens(Rects)[ServerOf(b)])
    BY <1>1, <1>4 DEF Effective
  <2>3. params.group_blocks # None2 /\ GroupsInOrder
    BY <1>1, <1>4, ValidParameters
  <2> QED
    BY <1>1, <2>1, <2>2, <2>3, CombinedWidth
<1>5. ASSUME ~params.combine_displays, NEW b \in DOMAIN effective
      PROVE  /\ effective[b].resolution[1] = effective[b].rect[3] - effective[b].rect[1]
             /\ effective[b].resolution[2] = effective[b].rect[4] - effective[b].rect[2]
  <2>1. b \in 0..(NumBlocks - 1)
    BY <1>1, <1>3, <1>5 DEF Effective
  <2>2. /\ effective[b].rect = Rects[b]
        /\ effective[b].resolution = Seen(Screens(Rects)[ServerOf(b)][b - GpusBefore(ServerOf(b))])
    BY <1>1, <1>3, <1>5, <2>1 DEF Effective
  <2>3. effective[b].resolution = Area(b)
    BY <1>1, <2>1, <2>2, ScreenOfBlock, SeenArea
  <2>4. /\ Rects[b][1] \in Nat /\ Rects[b][2] \in Nat
        /\ Rects[b][3] = Rects[b][1] + Area(b)[1] /\ Rects[b][4] = Rects[b][2] + Area(b)[2]
        /\ Area(b)[1] \in Nat /\ Area(b)[2] \in Nat
    BY <1>1, <2>1, RectProps
  <2> QED
    BY <2>2, <2>3, <2>4
<1> QED
  BY <1>2, <1>4, <1>5

\* Without groups, or with groups that X servers drive row by row, applications draw on areas
\* as large as their screens (with Xinerama, as wide), and the screens of an X server are
\* apart on walls that are not both rotated and clipped.  The groups of the sample
\* configuration are not in that order (setupXServers and getCombinedScreen).
THEOREM TiledDrawnWhole == Spec => []DrawnWhole
BY DrawnWholeHolds, TiledInvariance, PTL


-----------------------------------------------------------------------------
(* Displays that are not rotated or clipped are where their bezels put     *)
(* them.                                                                   *)

\* What a line that is not the first begins with, besides its displays and their bezels.
Gap(near, far) == IF ForceBezels THEN 0 ELSE IF DesktopBezels THEN near + far ELSE near

\* Line k of the lines to last has all bezels, but the first of the first and the last of the last.
LineBezels(b, line, n, k, last) ==
    \A i \in 0..(n - 1) :
        /\ HasBezel(b, line, TRUE, i) <=> (ForceBezels \/ ~(k = 0 /\ i = 0))
        /\ HasBezel(b, line, FALSE, i) <=> (ForceBezels \/ ~(k = last /\ i = n - 1))

\* Line l of n displays is even: each is a pitch from the one before, but for the gap.
EvenLine(l, n, pitch, near, gap, k, last) ==
    /\ \A i \in 0..(n - 1) :
            l.at[i] = i * pitch + (IF ForceBezels THEN near ELSE IF k = 0 THEN 0 ELSE gap)
    /\ k < last => l.length = n * pitch - (IF k = 0 THEN gap ELSE 0)

LEMMA LinePlace ==
    ASSUME NEW b, NEW line, NEW n \in 1..2, NEW tile \in Nat, NEW near \in Nat, NEW far \in Nat,
           NEW k \in Nat, NEW last \in Nat, k <= last, LineBezels(b, line, n, k, last)
    PROVE  EvenLine(Line(b, <<line, TRUE>>, n, tile, near, far), n, tile + near + far,
                    near, Gap(near, far), k, last)
<1> DEFINE before(i) == IF HasBezel(b, line, TRUE, i)
                        THEN near + (IF DesktopBezels THEN far ELSE 0) ELSE 0
           after(i) == IF HasBezel(b, line, FALSE, i) /\ ~DesktopBezels THEN far ELSE 0
           taken == [i \in 0..(n - 1) |-> before(i) + tile + after(i)]
           l == Line(b, <<line, TRUE>>, n, tile, near, far)
           pitch == tile + near + far
           gap == Gap(near, far)
<1>1. l = [at |-> [i \in 0..(n - 1) |-> Upto(taken, i) + before(i)], length |-> Upto(taken, n)]
  BY DEF Line, Upto
<1>2. ~(ForceBezels /\ DesktopBezels)
  BY DEF ForceBezels, DesktopBezels
<1>3. ASSUME NEW i
      PROVE  before(i) \in Nat /\ after(i) \in Nat
  <2>1. near + far \in Nat /\ near + 0 \in Nat
    OBVIOUS
  <2>2. before(i) \in {near + far, near + 0, 0} /\ after(i) \in {far, 0}
    OBVIOUS
  <2> HIDE DEF before, after
  <2> QED
    BY <2>1, <2>2
<1>4. gap \in Nat /\ (ForceBezels => gap = 0)
  BY DEF Gap
<1>5. ASSUME NEW i \in 0..(n - 1)
      PROVE  before(i) = (IF ForceBezels THEN near ELSE IF k = 0 /\ i = 0 THEN 0 ELSE gap)
  <2>1. HasBezel(b, line, TRUE, i) <=> (ForceBezels \/ ~(k = 0 /\ i = 0))
    BY DEF LineBezels
  <2>2. CASE ForceBezels
    <3>1. before(i) = near + 0
      BY <1>2, <2>1, <2>2
    <3>2. near + 0 = near
      OBVIOUS
    <3> HIDE DEF before
    <3> QED
      BY <2>2, <3>1, <3>2
  <2>3. CASE ~ForceBezels /\ k = 0 /\ i = 0
    BY <2>1, <2>3
  <2>4. CASE ~ForceBezels /\ ~(k = 0 /\ i = 0)
    <3>1. before(i) = near + (IF DesktopBezels THEN far ELSE 0)
      BY <2>1, <2>4
    <3>2. gap = near + (IF DesktopBezels THEN far ELSE 0)
      BY <2>4 DEF Gap
    <3> HIDE DEF before, gap
    <3> QED
      BY <2>4, <3>1, <3>2
  <2> QED
    BY <2>2, <2>3, <2>4
<1>6. ASSUME NEW i \in 0..(n - 1), ~(k = last /\ i = n - 1)
      PROVE  before(i) + after(i) = near + far - (IF k = 0 /\ i = 0 THEN gap ELSE 0)
  <2>1. HasBezel(b, line, FALSE, i)
    BY <1>6 DEF LineBezels
  <2>2. after(i) = (IF DesktopBezels THEN 0 ELSE far)
    BY <2>1
  <2>3. gap = (IF ForceBezels THEN 0 ELSE IF DesktopBezels THEN near + far ELSE near)
    BY DEF Gap
  <2> HIDE DEF before, after, gap
  <2> QED
    BY <1>2, <1>5, <2>2, <2>3
<1>7. ASSUME NEW i \in 0..(n - 1)
      PROVE  taken[i] = before(i) + tile + after(i) /\ taken[i] \in Nat
  <2>1. taken[i] = before(i) + tile + after(i)
    OBVIOUS
  <2> HIDE DEF before, after, taken
  <2> QED
    BY <1>3, <2>1
<1> HIDE DEF before, after, taken, l, gap
<1>8. n \in Nat /\ n >= 1
  OBVIOUS
<1>9. /\ \A i \in 0..(n - 1) : Upto(taken, i + 1) = Upto(taken, i) + taken[i]
      /\ \A i \in 0..n : Upto(taken, i) \in Nat
      /\ Upto(taken, 0) = 0
  BY <1>7, <1>8, UptoProps
<1>10. \A i \in 0..(n - 1) : ~(k = last /\ i = n - 1) =>
        taken[i] = pitch - (IF k = 0 /\ i = 0 THEN gap ELSE 0)
  <2>1. ASSUME NEW i \in 0..(n - 1), ~(k = last /\ i = n - 1)
        PROVE  taken[i] = pitch - (IF k = 0 /\ i = 0 THEN gap ELSE 0)
    <3>1. before(i) \in Nat /\ after(i) \in Nat
      BY <1>3
    <3>2. before(i) + after(i) = near + far - (IF k = 0 /\ i = 0 THEN gap ELSE 0)
      BY <1>6, <2>1
    <3>3. taken[i] = before(i) + tile + after(i)
      BY <1>7
    <3> QED
      BY <1>4, <3>1, <3>2, <3>3
  <2> QED
    BY <2>1
<1>11. ASSUME NEW i \in 0..(n - 1)
       PROVE  l.at[i] = i * pitch + (IF ForceBezels THEN near ELSE IF k = 0 THEN 0 ELSE gap)
  <2>1. l.at[i] = Upto(taken, i) + before(i)
    BY <1>1
  <2>2. CASE i = 0
    <3>1. l.at[i] = before(0) /\ before(0) = (IF ForceBezels THEN near ELSE IF k = 0 THEN 0 ELSE gap)
      BY <1>4, <1>5, <1>9, <2>1, <2>2
    <3> HIDE DEF pitch
    <3>2. i * pitch = 0 /\ l.at[i] \in Nat
      <4>1. 0 * pitch = 0
        BY DEF pitch
      <4> QED
        BY <1>4, <2>2, <3>1, <4>1
    <3> QED
      BY <1>4, <3>1, <3>2
  <2>3. CASE i = 1
    <3>1. n = 2 /\ 0 \in 0..(n - 1) /\ 0 # n - 1
      BY <2>3
    <3>2. taken[0] = pitch - (IF k = 0 THEN gap ELSE 0)
      BY <1>10, <3>1
    <3>3. Upto(taken, 0 + 1) = Upto(taken, 0) + taken[0]
      BY <1>9, <3>1
    <3>4. Upto(taken, 1) = taken[0]
      BY <1>7, <1>9, <3>1, <3>3
    <3>5. before(1) = (IF ForceBezels THEN near ELSE gap)
      BY <1>5, <2>3
    <3>6. l.at[i] = taken[0] + before(1)
      BY <2>1, <2>3, <3>4
    <3> QED
      BY <1>4, <2>3, <3>2, <3>5, <3>6
  <2> QED
    BY <2>2, <2>3
<1>12. ASSUME k < last
       PROVE  l.length = n * pitch - (IF k = 0 THEN gap ELSE 0)
  <2>1. l.length = Upto(taken, n)
    BY <1>1
  <2>2. 0 \in 0..(n - 1) /\ k # last
    BY <1>12
  <2>3. taken[0] = pitch - (IF k = 0 THEN gap ELSE 0)
    BY <1>10, <2>2
  <2>4. Upto(taken, 0 + 1) = Upto(taken, 0) + taken[0]
    BY <1>9, <2>2
  <2>5. Upto(taken, 1) = taken[0]
    BY <1>7, <1>9, <2>2, <2>4
  <2>6. CASE n = 1
    BY <1>4, <2>1, <2>3, <2>5, <2>6
  <2>7. CASE n = 2
    <3>1. 1 \in 0..(n - 1)
      BY <2>7
    <3>2. taken[1] = pitch
      BY <1>10, <2>2, <3>1
    <3>3. Upto(taken, 1 + 1) = Upto(taken, 1) + taken[1]
      BY <1>9, <3>1
    <3>4. Upto(taken, 2) = taken[0] + taken[1]
      BY <2>5, <3>3
    <3> QED
      BY <1>4, <2>1, <2>3, <2>7, <3>2, <3>4
  <2> QED
    BY <2>6, <2>7
<1> QED
  BY <1>11, <1>12 DEF EvenLine, l, gap

\* Sums of numbers that are the same, but for the first and the last.
Even(F, n, step, gap) ==
    \A i \in 0..(n - 1) :
        F[i] \in Nat /\ (i < n - 1 => F[i] = step - (IF i = 0 THEN gap ELSE 0))

LEMMA EvenSums ==
    ASSUME NEW F, NEW n \in Nat \ {0}, NEW step \in Nat, NEW gap \in Nat, Even(F, n, step, gap)
    PROVE  \A c \in 0..(n - 1) : Upto(F, c) = c * step - (IF c = 0 THEN 0 ELSE gap)
<1> DEFINE Good == {c \in Nat : c <= n - 1 => Upto(F, c) = c * step - (IF c = 0 THEN 0 ELSE gap)}
<1>1. /\ \A i \in 0..(n - 1) : Upto(F, i + 1) = Upto(F, i) + F[i]
      /\ Upto(F, 0) = 0
  BY UptoProps DEF Even
<1>2. 0 \in Good
  <2>1. 0 * step - 0 = 0
    OBVIOUS
  <2> QED
    BY <1>1, <2>1
<1>3. ASSUME NEW c \in Nat, c \in Good
      PROVE  c + 1 \in Good
  <2> SUFFICES ASSUME c + 1 <= n - 1
               PROVE  Upto(F, c + 1) = (c + 1) * step - gap
    BY DEF Good
  <2>1. c \in 0..(n - 1) /\ c < n - 1
    OBVIOUS
  <2>2. Upto(F, c) = c * step - (IF c = 0 THEN 0 ELSE gap)
    BY <1>3, <2>1
  <2>3. Upto(F, c + 1) = Upto(F, c) + F[c] /\ F[c] = step - (IF c = 0 THEN gap ELSE 0)
    BY <1>1, <2>1 DEF Even
  <2>4. (c + 1) * step = c * step + step /\ c * step \in Nat
    OBVIOUS
  <2> HIDE DEF Good
  <2> QED
    BY <2>2, <2>3, <2>4
<1>4. Nat \subseteq Good
  <2> HIDE DEF Good
  <2> QED
    BY <1>2, <1>3, NatSetInduction
<1> QED
  BY <1>4

\* The start of a line of lines, and a place in it, by the two lemmas above.
LEMMA EvenPlace ==
    ASSUME NEW c \in Nat, NEW n \in Nat, NEW i \in Nat, NEW pitch \in Nat, NEW near \in Nat, NEW gap \in Nat,
           NEW force \in BOOLEAN, force => gap = 0
    PROVE  (c * (n * pitch) - (IF c = 0 THEN 0 ELSE gap))
           + (i * pitch + (IF force THEN near ELSE IF c = 0 THEN 0 ELSE gap))
           = (IF force THEN near ELSE 0) + pitch * (c * n + i)
<1>1. pitch * (c * n + i) = pitch * (c * n) + pitch * i
  <2>1. c * n \in Nat
    OBVIOUS
  <2>2. ASSUME NEW x \in Nat
        PROVE  pitch * (x + i) = pitch * x + pitch * i
    OBVIOUS
  <2> QED
    BY <2>1, <2>2
<1>2. pitch * (c * n) = c * (n * pitch) /\ pitch * i = i * pitch
  OBVIOUS
<1>3. c * (n * pitch) \in Nat /\ i * pitch \in Nat
  OBVIOUS
<1> QED
  BY <1>1, <1>2, <1>3


\* The displays of a block are as PanelsInPlace says, along each direction.
LEMMA PanelAt ==
    ASSUME Typed(params), Valid, params.rotate = "none", Unclipped, NEW b \in 0..(NumBlocks - 1)
    PROVE  /\ \A i \in 0..(Layout[1] - 1) :
                X(Col(b)) + LineX(b).at[i]
                = (IF ForceBezels THEN Bezel("left") ELSE 0)
                  + (MatchedMode.width + Bezel("left") + Bezel("right")) * (Col(b) * Layout[1] + i)
           /\ \A i \in 0..(Layout[2] - 1) :
                Y(Row(b)) + LineY(b).at[i]
                = (IF ForceBezels THEN Bezel("top") ELSE 0)
                  + (MatchedMode.height + Bezel("top") + Bezel("bottom")) * (Row(b) * Layout[2] + i)
<1> DEFINE cols == params.num_blocks[1]
           rows == params.num_blocks[2]
           w == MatchedMode.width
           h == MatchedMode.height
           left == Bezel("left")
           right == Bezel("right")
           top == Bezel("top")
           bottom == Bezel("bottom")
           gapX == Gap(left, right)
           gapY == Gap(top, bottom)
<1>1. cols \in Nat \ {0} /\ rows \in Nat \ {0} /\ Layout[1] \in 1..2 /\ Layout[2] \in 1..2
  <2>1. cols \in Nat \ {0} /\ rows \in Nat \ {0} /\ Layout \in {<<1, 1>>, <<1, 2>>, <<2, 1>>}
    BY ValidParameters
  <2> QED
    BY <2>1
<1>2. /\ w \in Nat /\ left \in Nat /\ right \in Nat
      /\ h \in Nat /\ top \in Nat /\ bottom \in Nat
  BY Sizes
<1>3. Upright /\ Regular /\ Edges.x = <<"col", TRUE>> /\ Edges.y = <<"row", TRUE>>
  BY DEF Upright, Regular, Edges
<1>4. \A c : SubCols(c) = Layout[1] /\ SubRows(c) = Layout[2]
  BY UnclippedSizes
<1>5. gapX \in Nat /\ gapY \in Nat /\ (ForceBezels => gapX = 0 /\ gapY = 0)
  BY <1>2 DEF Gap
<1> HIDE DEF cols, rows, w, h, left, right, top, bottom, gapX, gapY
<1>6. ASSUME NEW c, Col(c) \in 0..(cols - 1)
      PROVE  /\ \A i \in 0..(Layout[1] - 1) :
                    LineX(c).at[i] = i * (w + left + right)
                                     + (IF ForceBezels THEN left ELSE IF Col(c) = 0 THEN 0 ELSE gapX)
             /\ Col(c) < cols - 1 =>
                    LineX(c).length = Layout[1] * (w + left + right) - (IF Col(c) = 0 THEN gapX ELSE 0)
  <2>1. \A i \in 0..(Layout[1] - 1) :
            /\ HasBezel(c, "col", TRUE, i) <=> (ForceBezels \/ ~(Col(c) = 0 /\ i = 0))
            /\ HasBezel(c, "col", FALSE, i) <=> (ForceBezels \/ ~(Col(c) = cols - 1 /\ i = Layout[1] - 1))
    BY <1>4 DEF HasBezel, cols
  <2>2. LineX(c) = Line(c, <<"col", TRUE>>, Layout[1], w, left, right)
    BY <1>3, <1>4 DEF LineX, w, left, right
  <2>3. Col(c) \in Nat /\ cols - 1 \in Nat /\ Col(c) <= cols - 1
    BY <1>1, <1>6
  <2> DEFINE k == Col(c)
             last == cols - 1
             n == Layout[1]
  <2>4. /\ k \in Nat /\ last \in Nat /\ k <= last /\ n \in 1..2
        /\ LineBezels(c, "col", n, k, last)
    BY <1>1, <2>1, <2>3 DEF LineBezels
  <2> HIDE DEF k, last, n
  <2>5. EvenLine(Line(c, <<"col", TRUE>>, n, w, left, right), n, w + left + right, left, Gap(left, right), k, last)
    BY <1>2, <2>4, LinePlace
  <2> QED
    BY <2>2, <2>5 DEF EvenLine, k, last, n, gapX
<1>7. ASSUME NEW c, Row(c) \in 0..(rows - 1)
      PROVE  /\ \A i \in 0..(Layout[2] - 1) :
                    LineY(c).at[i] = i * (h + top + bottom)
                                     + (IF ForceBezels THEN top ELSE IF Row(c) = 0 THEN 0 ELSE gapY)
             /\ Row(c) < rows - 1 =>
                    LineY(c).length = Layout[2] * (h + top + bottom) - (IF Row(c) = 0 THEN gapY ELSE 0)
  <2>1. \A i \in 0..(Layout[2] - 1) :
            /\ HasBezel(c, "row", TRUE, i) <=> (ForceBezels \/ ~(Row(c) = 0 /\ i = 0))
            /\ HasBezel(c, "row", FALSE, i) <=> (ForceBezels \/ ~(Row(c) = rows - 1 /\ i = Layout[2] - 1))
    BY <1>4 DEF HasBezel, rows
  <2>2. LineY(c) = Line(c, <<"row", TRUE>>, Layout[2], h, top, bottom)
    BY <1>3, <1>4 DEF LineY, h, top, bottom
  <2>3. Row(c) \in Nat /\ rows - 1 \in Nat /\ Row(c) <= rows - 1
    BY <1>1, <1>7
  <2> DEFINE k == Row(c)
             last == rows - 1
             n == Layout[2]
  <2>4. /\ k \in Nat /\ last \in Nat /\ k <= last /\ n \in 1..2
        /\ LineBezels(c, "row", n, k, last)
    BY <1>1, <2>1, <2>3 DEF LineBezels
  <2> HIDE DEF k, last, n
  <2>5. EvenLine(Line(c, <<"row", TRUE>>, n, h, top, bottom), n, h + top + bottom, top, Gap(top, bottom), k, last)
    BY <1>2, <2>4, LinePlace
  <2> QED
    BY <2>2, <2>5 DEF EvenLine, k, last, n, gapY
\* Where the columns and the rows of blocks start.
<1>8. \A c \in 0..(cols - 1) : X(c) = c * (Layout[1] * (w + left + right)) - (IF c = 0 THEN 0 ELSE gapX)
  <2> DEFINE step == Layout[1] * (w + left + right)
  <2>1. step \in Nat
    BY <1>1, <1>2
  <2>2. \A c \in 0..(cols - 1) : Widths[c] \in Nat
    BY GridProps DEF cols
  <2>3. ASSUME NEW c \in 0..(cols - 1), c < cols - 1
        PROVE  Widths[c] = step - (IF c = 0 THEN gapX ELSE 0)
    <3>1. Col(c) = c
      <4>1. 0 \in 0..(rows - 1) /\ 0 * cols + c = c
        BY <1>1
      <4>2. Col(0 * cols + c) = c
        BY <4>1, PlaceBlock DEF cols, rows
      <4> QED
        BY <4>1, <4>2
    <3>2. Widths[c] = LineX(c).length
      BY <1>3 DEF Widths, Area, Turned, Framebuffer, cols
    <3> QED
      BY <1>6, <2>3, <3>1, <3>2
  <2> HIDE DEF step
  <2>4. \A c \in 0..(cols - 1) : Upto(Widths, c) = c * step - (IF c = 0 THEN 0 ELSE gapX)
    <3>1. Even(Widths, cols, step, gapX)
      BY <2>2, <2>3 DEF Even
    <3> QED
      BY <1>1, <1>5, <2>1, <3>1, EvenSums
  <2> QED
    BY <2>4 DEF X, step
<1>9. \A r \in 0..(rows - 1) : Y(r) = r * (Layout[2] * (h + top + bottom)) - (IF r = 0 THEN 0 ELSE gapY)
  <2> DEFINE step == Layout[2] * (h + top + bottom)
  <2>1. step \in Nat
    BY <1>1, <1>2
  <2>2. \A r \in 0..(rows - 1) : Heights[r] \in Nat
    BY GridProps DEF rows
  <2>3. ASSUME NEW r \in 0..(rows - 1), r < rows - 1
        PROVE  Heights[r] = step - (IF r = 0 THEN gapY ELSE 0)
    <3>1. Row(r * cols) = r
      <4>1. 0 \in 0..(cols - 1) /\ r * cols + 0 = r * cols
        BY <1>1
      <4>2. Row(r * cols + 0) = r
        BY <4>1, PlaceBlock DEF cols, rows
      <4> QED
        BY <4>1, <4>2
    <3>2. Heights[r] = LineY(r * cols).length
      BY <1>3 DEF Heights, Area, Turned, Framebuffer, cols, rows
    <3> QED
      BY <1>7, <2>3, <3>1, <3>2
  <2> HIDE DEF step
  <2>4. \A r \in 0..(rows - 1) : Upto(Heights, r) = r * step - (IF r = 0 THEN 0 ELSE gapY)
    <3>1. Even(Heights, rows, step, gapY)
      BY <2>2, <2>3 DEF Even
    <3> QED
      BY <1>1, <1>5, <2>1, <3>1, EvenSums
  <2> QED
    BY <2>4 DEF Y, step
<1>10. Col(b) \in 0..(cols - 1) /\ Row(b) \in 0..(rows - 1)
  BY BlockPlace DEF cols, rows
<1>11. ForceBezels \in BOOLEAN
  BY DEF ForceBezels
<1>12. ASSUME NEW i \in 0..(Layout[1] - 1)
       PROVE  X(Col(b)) + LineX(b).at[i]
              = (IF ForceBezels THEN left ELSE 0) + (w + left + right) * (Col(b) * Layout[1] + i)
  <2> DEFINE c == Col(b)
             n == Layout[1]
             pitch == w + left + right
  <2>1. c \in Nat /\ n \in Nat /\ i \in Nat /\ pitch \in Nat
    BY <1>1, <1>2, <1>10
  <2>2. X(c) = c * (n * pitch) - (IF c = 0 THEN 0 ELSE gapX)
    BY <1>8, <1>10
  <2>3. LineX(b).at[i] = i * pitch + (IF ForceBezels THEN left ELSE IF c = 0 THEN 0 ELSE gapX)
    BY <1>6, <1>10
  <2> HIDE DEF c, n, pitch
  <2>4. (c * (n * pitch) - (IF c = 0 THEN 0 ELSE gapX))
        + (i * pitch + (IF ForceBezels THEN left ELSE IF c = 0 THEN 0 ELSE gapX))
        = (IF ForceBezels THEN left ELSE 0) + pitch * (c * n + i)
    BY <1>2, <1>5, <1>11, <2>1, EvenPlace
  <2>5. X(c) + LineX(b).at[i] = (IF ForceBezels THEN left ELSE 0) + pitch * (c * n + i)
    BY <2>2, <2>3, <2>4
  <2> QED
    BY <2>5 DEF c, n, pitch
<1>13. ASSUME NEW i \in 0..(Layout[2] - 1)
       PROVE  Y(Row(b)) + LineY(b).at[i]
              = (IF ForceBezels THEN top ELSE 0) + (h + top + bottom) * (Row(b) * Layout[2] + i)
  <2> DEFINE c == Row(b)
             n == Layout[2]
             pitch == h + top + bottom
  <2>1. c \in Nat /\ n \in Nat /\ i \in Nat /\ pitch \in Nat
    BY <1>1, <1>2, <1>10
  <2>2. Y(c) = c * (n * pitch) - (IF c = 0 THEN 0 ELSE gapY)
    BY <1>9, <1>10
  <2>3. LineY(b).at[i] = i * pitch + (IF ForceBezels THEN top ELSE IF c = 0 THEN 0 ELSE gapY)
    BY <1>7, <1>10
  <2> HIDE DEF c, n, pitch
  <2>4. (c * (n * pitch) - (IF c = 0 THEN 0 ELSE gapY))
        + (i * pitch + (IF ForceBezels THEN top ELSE IF c = 0 THEN 0 ELSE gapY))
        = (IF ForceBezels THEN top ELSE 0) + pitch * (c * n + i)
    BY <1>2, <1>5, <1>11, <2>1, EvenPlace
  <2>5. Y(c) + LineY(b).at[i] = (IF ForceBezels THEN top ELSE 0) + pitch * (c * n + i)
    BY <2>2, <2>3, <2>4
  <2> QED
    BY <2>5 DEF c, n, pitch
<1> QED
  BY <1>12, <1>13 DEF w, h, left, right, top, bottom

\* Every display of a block that is not clipped has an output.
LEMMA CellsUsed ==
    ASSUME Typed(params), Valid, Unclipped, NEW b,
           NEW i \in 0..(Layout[1] - 1), NEW j \in 0..(Layout[2] - 1)
    PROVE  \E p \in DOMAIN Scanouts(b) : Scanouts(b)[p] = <<LineX(b).at[i], LineY(b).at[j]>>
<1>1. /\ SubCols(b) = Layout[1] /\ SubRows(b) = Layout[2]
      /\ Layout \in {<<1, 1>>, <<1, 2>>, <<2, 1>>}
      /\ params.stereo_mode = "passive" => Layout = <<1, 1>>
  BY UnclippedSizes, ValidParameters
<1>2. \E k \in 0..(Used(b) - 1) : Cell(b, k) = <<i, j>>
  <2>1. CASE params.stereo_mode = "passive"
    <3>1. i = 0 /\ j = 0 /\ Used(b) = 2
      BY <1>1, <2>1 DEF Used
    <3>2. 0 \in 0..(Used(b) - 1) /\ Cell(b, 0) = <<i, j>>
      BY <2>1, <3>1 DEF Cell
    <3> QED
      BY <3>2
  <2>2. CASE params.stereo_mode # "passive"
    <3> DEFINE k == j * Layout[1] + i
    <3>1. Layout[1] \in Nat \ {0} /\ Layout[2] \in Nat \ {0}
      BY <1>1
    <3>2. k \in 0..(Layout[1] * Layout[2] - 1) /\ k \div Layout[1] = j /\ k % Layout[1] = i
      <4> DEFINE m == Layout[1]
                 n == Layout[2]
      <4>1. m \in Nat \ {0} /\ n \in Nat \ {0} /\ i \in 0..(m - 1) /\ j \in 0..(n - 1)
        BY <3>1
      <4> HIDE DEF m, n
      <4>2. j * m + i \in 0..(m * n - 1) /\ (j * m + i) \div m = j /\ (j * m + i) % m = i
        BY <4>1, GridPlace
      <4> QED
        BY <4>2 DEF m, n
    <3>3. k \in 0..(Used(b) - 1)
      BY <1>1, <2>2, <3>2 DEF Used
    <3> HIDE DEF k
    <3>4. Cell(b, k) = <<i, j>>
      BY <1>1, <2>2, <3>2 DEF Cell
    <3> QED
      BY <3>3, <3>4
  <2> QED
    BY <2>1, <2>2
<1>3. PICK k \in 0..(Used(b) - 1) : Cell(b, k) = <<i, j>>
  BY <1>2
<1> DEFINE p == PortOf(k)
           m == OutputOf(b, p)
<1>4. p \in DOMAIN Scanouts(b)
  BY DEF Scanouts
<1>5. /\ m \in 0..(Used(b) - 1) /\ PortOf(m) = p
      /\ Scanouts(b)[p] = <<LineX(b).at[Cell(b, m)[1]], LineY(b).at[Cell(b, m)[2]]>>
  BY <1>4, ScanoutShows
<1>6. m = k
  <2> HIDE DEF m
  <2> QED
    BY <1>5, PortsDiffer
<1> HIDE DEF p, m
<1>7. Scanouts(b)[p] = <<LineX(b).at[i], LineY(b).at[j]>>
  BY <1>3, <1>5, <1>6
<1> QED
  BY <1>4, <1>7

LEMMA PanelsInPlaceHold == IInv => PanelsInPlace
<1> DEFINE pitch == <<MatchedMode.width + Bezel("left") + Bezel("right"),
                      MatchedMode.height + Bezel("top") + Bezel("bottom")>>
           first == IF ForceBezels THEN <<Bezel("left"), Bezel("top")>> ELSE <<0, 0>>
           panel(c, x, y) == [d \in 1..2 |-> first[d] + pitch[d] * (IF d = 1 THEN Col(c) * Layout[1] + x
                                                                    ELSE Row(c) * Layout[2] + y)]
           place(scr, p) == [d \in 1..2 |-> blocks[scr.block][d] + scr.scanouts[p][d]]
<1>1. SUFFICES ASSUME IInv, Done, params.rotate = "none", Unclipped,
                      NEW s \in DOMAIN screens, NEW n \in DOMAIN screens[s]
               PROVE  LET scr == screens[s][n] IN
                      {place(scr, p) : p \in DOMAIN scr.scanouts}
                      = {panel(scr.block, x, y) : x \in 0..(Layout[1] - 1), y \in 0..(Layout[2] - 1)}
  BY DEF PanelsInPlace
<1> DEFINE scr == screens[s][n]
           b == GpusBefore(s) + n
<1>2. Typed(params) /\ Valid /\ screens = Screens(Rects) /\ blocks = Rects /\ gpus \in Seq(Nat)
  BY <1>1 DEF IInv, TypesOK, LaidOut
<1>3. /\ s \in DOMAIN gpus /\ n \in 0..(gpus[s] - 1)
      /\ scr.block = b /\ scr.scanouts = Scanouts(b)
  <2>1. s \in DOMAIN gpus /\ n \in 0..(gpus[s] - 1) /\ scr = NewScreen(b, Rects)
    BY <1>1, <1>2, ScreenOf
  <2> QED
    BY <2>1 DEF NewScreen
<1>4. b \in 0..(NumBlocks - 1)
  <2>1. GpusBefore(s) \in Nat /\ gpus[s] \in Nat /\ GpusBefore(s) + gpus[s] <= TotalGpus
        /\ TotalGpus = NumBlocks /\ NumBlocks \in Nat
    BY <1>2, <1>3, SumOfGpus, BlocksCount
  <2> QED
    BY <1>3, <2>1
<1> HIDE DEF b, scr
<1>5. Rects[b] = <<X(Col(b)), Y(Row(b)), X(Col(b) + 1), Y(Row(b) + 1)>>
  BY <1>1, <1>2, <1>4, GridRects DEF Regular
<1>6. ASSUME NEW x \in 0..(Layout[1] - 1), NEW y \in 0..(Layout[2] - 1), NEW p \in DOMAIN Scanouts(b),
             Scanouts(b)[p] = <<LineX(b).at[x], LineY(b).at[y]>>
      PROVE  place(scr, p) = panel(b, x, y)
  <2>1. /\ X(Col(b)) + LineX(b).at[x] = first[1] + pitch[1] * (Col(b) * Layout[1] + x)
        /\ Y(Row(b)) + LineY(b).at[y] = first[2] + pitch[2] * (Row(b) * Layout[2] + y)
    <3>1. first[1] = (IF ForceBezels THEN Bezel("left") ELSE 0)
          /\ first[2] = (IF ForceBezels THEN Bezel("top") ELSE 0)
      OBVIOUS
    <3>2. pitch[1] = MatchedMode.width + Bezel("left") + Bezel("right")
          /\ pitch[2] = MatchedMode.height + Bezel("top") + Bezel("bottom")
      OBVIOUS
    <3> HIDE DEF first, pitch
    <3> QED
      BY <1>1, <1>2, <1>4, <3>1, <3>2, PanelAt
  <2>2. /\ blocks[scr.block][1] + scr.scanouts[p][1] = X(Col(b)) + LineX(b).at[x]
        /\ blocks[scr.block][2] + scr.scanouts[p][2] = Y(Row(b)) + LineY(b).at[y]
    BY <1>2, <1>3, <1>5, <1>6
  <2> HIDE DEF first, pitch
  <2> QED
    BY <2>1, <2>2
<1>7. ASSUME NEW p \in DOMAIN Scanouts(b)
      PROVE  \E x \in 0..(Layout[1] - 1), y \in 0..(Layout[2] - 1) : place(scr, p) = panel(b, x, y)
  <2> DEFINE i == OutputOf(b, p)
             u == Cell(b, i)
  <2>1. i \in 0..(Used(b) - 1) /\ Scanouts(b)[p] = <<LineX(b).at[u[1]], LineY(b).at[u[2]]>>
    BY <1>2, ScanoutShows
  <2> HIDE DEF i
  <2>2. u \in (0..(SubCols(b) - 1)) \X (0..(SubRows(b) - 1))
    BY <1>2, <2>1, CellProps
  <2>3. u[1] \in 0..(Layout[1] - 1) /\ u[2] \in 0..(Layout[2] - 1)
    BY <1>1, <1>2, <2>2, UnclippedSizes
  <2> HIDE DEF u, place, panel
  <2>4. place(scr, p) = panel(b, u[1], u[2])
    BY <1>6, <2>1, <2>3
  <2> QED
    BY <2>3, <2>4
<1>8. ASSUME NEW x \in 0..(Layout[1] - 1), NEW y \in 0..(Layout[2] - 1)
      PROVE  \E p \in DOMAIN Scanouts(b) : place(scr, p) = panel(b, x, y)
  <2>1. PICK p \in DOMAIN Scanouts(b) : Scanouts(b)[p] = <<LineX(b).at[x], LineY(b).at[y]>>
    BY <1>1, <1>2, CellsUsed
  <2> HIDE DEF place, panel
  <2>2. place(scr, p) = panel(b, x, y)
    BY <1>6, <2>1
  <2> QED
    BY <2>2
<1> HIDE DEF place, panel
<1>9. {place(scr, p) : p \in DOMAIN Scanouts(b)}
      = {panel(b, x, y) : x \in 0..(Layout[1] - 1), y \in 0..(Layout[2] - 1)}
  BY <1>7, <1>8
<1> QED
  BY <1>3, <1>9 DEF scr

\* On walls that are neither rotated nor clipped, displays show each the part of the picture
\* that their bezels leave, within a block and across blocks, for any layout, remapping and mode, and in
\* each mode of bezels (the loops over blocks and displays in setupXServers).
THEOREM TiledPanelsInPlace == Spec => []PanelsInPlace
BY PanelsInPlaceHold, TiledInvariance, PTL
=============================================================================
