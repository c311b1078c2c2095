---------------------------- MODULE TiledDisplay ----------------------------
(***************************************************************************)
(* A tiled display: vsapi.TiledDisplay, the handler of a resource group.   *)
(* Its parameters say how displays are put together to blocks (the         *)
(* displays of one GPU), and blocks to a grid.  setupXServers validates    *)
(* the parameters against what was allocated, computes the framebuffer,    *)
(* the scanouts and the area of every block, and puts one screen per block *)
(* on the X servers.  The client library calls it when an allocation is    *)
(* decoded; the user may then change parameters, and setupViz calls it     *)
(* again.                                                                  *)
(*                                                                         *)
(* Blocks, rows, columns, ports and screens are numbered from 0 as in the  *)
(* code; a pair <<x, y>> is the code's list [columns, rows].               *)
(***************************************************************************)
EXTENDS Integers, Sequences, FiniteSets, FiniteSetsExt

CONSTANTS
    Displays,      \* what may be allocated: [params, gpus (GPUs of each reslist), scan]
    Modes,         \* the modes of the display device, in the order of its template
    DefaultMode,   \* the alias of its default mode
    Ports,         \* the number of output ports of a GPU (scanoutCaps)
    MaxFB,         \* <<max_width, max_height>> of a GPU
    Values,        \* the values the user may give to each parameter
    MaxChanges,    \* bound on the parameters changed
    None           \* Python's None, for parameters that are pairs or lists

Pair == Int \X Int
Bezels == [left : Nat, right : Nat, top : Nat, bottom : Nat]
None2 == <<None, None>>

\* The types of the parameters (the isinstance tests of doValidate).
ParamType ==
    [block_type |-> {"gpu", "quadroplex"}, num_blocks |-> Pair, block_display_layout |-> Pair,
     group_blocks |-> Pair \cup {None2}, combine_displays |-> BOOLEAN, rotate |-> STRING,
     bezels |-> STRING, clip_last_block |-> {<<>>} \cup ((Int \cup {None}) \X (Int \cup {None})),
     stereo_mode |-> STRING, remap_display_outputs |-> Seq(Int) \cup {<<None>>},
     display_mode |-> [kind : {"default"}] \cup [kind : {"alias"}, alias : STRING]
                      \cup [kind : {"size", "rate"}, size : Pair],
     tile_resolution |-> Pair \cup {None2}]

Typed(p) ==
    /\ p = [name \in DOMAIN ParamType |-> p[name]]
    /\ \A name \in DOMAIN ParamType : p[name] \in ParamType[name]

\* Displays have parameters of these types, modes have a size and bezels that are not
\* negative, and the user gives parameters values of their types (see SetParam); ports and
\* changes are counted.
ASSUME TiledDisplayAssumption ==
    /\ None \notin Int /\ MaxChanges \in Nat /\ Ports \in Nat
    /\ Modes \in Seq([alias : STRING, width : Nat, height : Nat, refresh : Nat \ {0}, bezel : Bezels])
    /\ \A d \in Displays : Typed(d.params) /\ d.gpus \in Seq(Nat)
    /\ \A name \in DOMAIN Values :
        IF name = "framelock" THEN Values[name] \subseteq ParamType.bezels
        ELSE name \in DOMAIN ParamType /\ Values[name] \subseteq ParamType[name]

VARIABLES
    params,    \* the attributes of the handler
    gpus,      \* gpus[s]: the number of GPUs in reslist s, which X server s drives
    scan,      \* whether the GPUs may be used for scanout (useScanOut)
    handed,    \* the allocation was decoded: the user has it, GPUs know the SSM
    blocks,    \* actualLayoutMatrix: the area of each block
    effective, \* effectiveLayoutMatrix: areas, and the screens they are drawn on
    screens,   \* screens[s]: the screens of X server s, by screen number
    combined,  \* combined[s]: Server.combineFBs
    outcome,   \* what the last setupXServers ended with
    changes    \* counts the changed parameters

vars == <<params, gpus, scan, handed, blocks, effective, screens, combined, outcome, changes>>

MinScreen == <<304, 200>>   \* the smallest framebuffer, and the largest in each direction
MaxScreen == 8192

Product(pair) == pair[1] * pair[2]
DesktopBezels == params.bezels = "desktop"
ForceBezels == params.bezels \in {"None", "all"}
Upright == params.rotate \notin {"portrait", "inverted_portrait"}
NumBlocks == Product(params.num_blocks)
Layout == params.block_display_layout
-----------------------------------------------------------------------------
(* The mode of the displays.                                               *)

\* A bezel in pixels, rounded: size is the display area and bezel the border, in one unit.
BezelPixels(pixels, size, bezel) == (2 * pixels * bezel + size) \div (2 * size)

OfSize(size) == {i \in DOMAIN Modes : <<Modes[i].width, Modes[i].height>> = size}
WithAlias(a) == {i \in DOMAIN Modes : Modes[i].alias = a}

\* The first of the modes of that size with the highest refresh rate.
BestMatching(size) ==
    Min({i \in OfSize(size) : \A j \in OfSize(size) : Modes[i].refresh >= Modes[j].refresh})

\* A list of three, [width, height, refresh], reads a fourth element.
ModeError ==
    LET m == params.display_mode IN
    CASE m.kind = "default" -> IF WithAlias(DefaultMode) = {} THEN "ValueError" ELSE "ok"
      [] m.kind = "alias"   -> IF WithAlias(m.alias) = {} THEN "ValueError" ELSE "ok"
      [] m.kind = "size"    -> IF OfSize(m.size) = {} THEN "ValueError" ELSE "ok"
      [] m.kind = "rate"    -> IF OfSize(m.size) = {} THEN "ValueError" ELSE "IndexError"

MatchedMode ==
    LET m == params.display_mode IN
    Modes[CASE m.kind = "default" -> Min(WithAlias(DefaultMode))
            [] m.kind = "alias"   -> Min(WithAlias(m.alias))
            [] m.kind = "size"    -> BestMatching(m.size)]

\* A tile may be larger than the display shows.
ValidTile ==
    params.tile_resolution # None2 =>
        /\ params.tile_resolution[1] >= MatchedMode.width
        /\ params.tile_resolution[2] >= MatchedMode.height

\* The bezels setupXServers uses: those of the mode, or none.
Bezel(side) == IF params.bezels = "disable" THEN 0 ELSE MatchedMode.bezel[side]
-----------------------------------------------------------------------------
(* doValidate: every parameter has its type here, and keeps to these.      *)

ValidBlocks ==
    /\ \A d \in 1..2 : params.num_blocks[d] > 0 /\ Layout[d] > 0
    /\ params.group_blocks # None2 =>
        /\ \A d \in 1..2 : /\ params.group_blocks[d] > 0
                           /\ params.num_blocks[d] % params.group_blocks[d] = 0
        /\ params.block_type = "quadroplex" => NumBlocks = 1
    /\ IF params.block_type = "gpu" THEN Product(Layout) \in 1..2 ELSE Product(Layout) \in 2..4

ValidStereo ==
    params.stereo_mode = "passive" => Layout = <<1, 1>> /\ params.block_type = "gpu"

ValidRemap ==
    LET ports == params.remap_display_outputs
        needed == IF params.block_type = "gpu" THEN Product(Layout)
                  ELSE (Product(Layout) + 1) \div 2
    IN  ports # <<None>> =>
            /\ params.stereo_mode = "passive" => Len(ports) = 2
            /\ Len(ports) = needed
            /\ \A i \in DOMAIN ports : ports[i] >= 0
            /\ \A i, j \in DOMAIN ports : ports[i] = ports[j] => i = j

ValidClip ==
    params.clip_last_block # <<>> =>
        \A d \in 1..2 : params.clip_last_block[d] \in 1..Layout[d] \cup {None}

TotalGpus == SumFunction(gpus)

ValidGpus ==
    /\ \A s \in DOMAIN gpus : gpus[s] > 0
    /\ params.block_type = "quadroplex" => \A s \in DOMAIN gpus : gpus[s] = 2
    /\ TotalGpus = (IF params.block_type = "quadroplex" THEN 2 * NumBlocks ELSE NumBlocks)

\* The first error of doValidate.  setParam may combine displays of no group at all.
Validation ==
    IF ~(ValidBlocks /\ ValidStereo /\ ValidRemap /\ ValidClip) THEN "ValueError"
    ELSE IF ~ValidGpus THEN "ValueError"
    ELSE IF params.combine_displays /\ \E s \in DOMAIN gpus : gpus[s] # gpus[1] THEN "ValueError"
    ELSE IF params.combine_displays /\ params.group_blocks = None2 THEN "TypeError"
    ELSE IF params.combine_displays /\ gpus[1] # Product(params.group_blocks) THEN "ValueError"
    ELSE IF ModeError # "ok" THEN ModeError
    ELSE IF ValidTile THEN "ok" ELSE "ValueError"
-----------------------------------------------------------------------------
(* The blocks.  GPUs fill them row by row in the order they were allocated. *)

Row(b) == b \div params.num_blocks[1]
Col(b) == b % params.num_blocks[1]
GpusBefore(s) == SumFunctionOnSet(gpus, 1..(s - 1))
ServerOf(b) == CHOOSE s \in DOMAIN gpus : b \in GpusBefore(s)..(GpusBefore(s) + gpus[s] - 1)

\* clip_last_block, where None, for both or for one of them, stands for no clipping.
Clip(d) ==
    IF params.clip_last_block = <<>> \/ params.clip_last_block[d] = None THEN Layout[d]
    ELSE params.clip_last_block[d]

\* Columns and rows of displays in block b.  The column and the row that are clipped
\* are found by comparing them to the layout of the block, not to num_blocks.
SubCols(b) == IF Col(b) = Layout[1] - 1 THEN Clip(1) ELSE Layout[1]
SubRows(b) == IF Row(b) = Layout[2] - 1 THEN Clip(2) ELSE Layout[2]

HasBezel_WithinBlock(b, line, atStart, i) ==
    ForceBezels \/ i # (IF atStart THEN 0 ELSE (IF line = "col" THEN SubCols(b) ELSE SubRows(b)) - 1)

\* Whether display i of a line of displays has its bezel towards the start of the
\* line, or towards its end: all have, or all but the very first and the very last.
HasBezel(b, line, atStart, i) ==
    LET d == IF line = "col" THEN 1 ELSE 2
        major == IF line = "col" THEN Col(b) ELSE Row(b)
        lastSub == (IF line = "col" THEN SubCols(b) ELSE SubRows(b)) - 1
    IN  \/ ForceBezels
        \/ IF atStart THEN ~(major = 0 /\ i = 0)
           ELSE ~(major = params.num_blocks[d] - 1 /\ i = lastSub)

\* The lines of blocks that give the bezels along x and y of the framebuffer, and
\* whether the left (top) one is that at the start.  Rotation decides it.
Edges ==
    CASE params.rotate = "portrait"           -> [x |-> <<"row", FALSE>>, y |-> <<"col", TRUE>>]
      [] params.rotate = "inverted_portrait"  -> [x |-> <<"row", TRUE>>,  y |-> <<"col", FALSE>>]
      [] params.rotate = "inverted_landscape" -> [x |-> <<"col", FALSE>>, y |-> <<"row", FALSE>>]
      [] OTHER                                -> [x |-> <<"col", TRUE>>,  y |-> <<"row", TRUE>>]

\* n displays of block b side by side along an edge: where each starts, and the
\* length of the line.  On a desktop both bezels go before a display.
Line(b, edge, n, tile, near, far) ==
    LET line == edge[1]
        before(i) == IF HasBezel(b, line, edge[2], i)
                     THEN near + (IF DesktopBezels THEN far ELSE 0) ELSE 0
        after(i) == IF HasBezel(b, line, ~edge[2], i) /\ ~DesktopBezels THEN far ELSE 0
        taken == [i \in 0..(n - 1) |-> before(i) + tile + after(i)]
        end(i) == SumFunctionOnSet(taken, 0..(i - 1))
    IN  [at |-> [i \in 0..(n - 1) |-> end(i) + before(i)], length |-> end(n)]

LineX(b) == Line(b, Edges.x, SubCols(b), MatchedMode.width, Bezel("left"), Bezel("right"))
LineY(b) == Line(b, Edges.y, SubRows(b), MatchedMode.height, Bezel("top"), Bezel("bottom"))

Framebuffer_Tiles(b) == <<SubCols(b) * MatchedMode.width, SubRows(b) * MatchedMode.height>>

\* The framebuffer of block b, and what it takes of the tiled display.
Framebuffer(b) == <<LineX(b).length, LineY(b).length>>
Area_Unrotated(b) == Framebuffer(b)

\* Clients see what is turned to portrait with its width and height exchanged.
Turned(size) == IF Upright THEN size ELSE <<size[2], size[1]>>
Area(b) == Turned(Framebuffer(b))

PortOf(i) ==
    IF params.remap_display_outputs = <<None>> THEN i ELSE params.remap_display_outputs[i + 1]

\* The display outputs of block b, in the order of its displays, and the column and row
\* of the display that one shows.  The second of passive stereo shows what the first does.
Used(b) == IF params.stereo_mode = "passive" THEN 2 ELSE SubCols(b) * SubRows(b)
OutputOf(b, port) == CHOOSE i \in 0..(Used(b) - 1) : PortOf(i) = port
Cell(b, i) ==
    IF params.stereo_mode = "passive" THEN <<0, 0>> ELSE <<i % SubCols(b), i \div SubCols(b)>>

\* The scanouts of block b: the place in its framebuffer of what each port shows.
Scanouts(b) ==
    [p \in {PortOf(i) : i \in 0..(Used(b) - 1)} |->
        LET cell == Cell(b, OutputOf(b, p))
        IN  <<LineX(b).at[cell[1]], LineY(b).at[cell[2]]>>]

\* Where blocks of these areas are: side by side in a row, rows as high as their last block.
Placed(area) ==
    LET cols == params.num_blocks[1]
        widths(row) == [c \in 0..(cols - 1) |-> area[row * cols + c][1]]
        heights == [r \in 0..(params.num_blocks[2] - 1) |-> area[r * cols + cols - 1][2]]
        x(b) == SumFunctionOnSet(widths(Row(b)), 0..(Col(b) - 1))
        y(b) == SumFunctionOnSet(heights, 0..(Row(b) - 1))
    IN  [b \in DOMAIN area |-> <<x(b), y(b), x(b) + area[b][1], y(b) + area[b][2]>>]

Rects == Placed([b \in 0..(NumBlocks - 1) |-> Area(b)])

\* The first block of the group of blocks that b is in, and where b is relative to it.
GroupStart(b) ==
    LET g == params.group_blocks
    IN  (Row(b) - (Row(b) % g[2])) * params.num_blocks[1] + (Col(b) - (Col(b) % g[1]))

Position_InDisplay(b, rects) == <<rects[b][1], rects[b][2]>>

Position(b, rects) ==
    IF params.group_blocks = None2 THEN None2
    ELSE [d \in 1..2 |-> rects[b][d] - rects[GroupStart(b)][d]]

-----------------------------------------------------------------------------
(* setupXServers.                                                          *)

\* The screen of block b.  It has copies of its GPUs.
NewScreen(b, rects) ==
    [block |-> b, resolution |-> Framebuffer(b), position |-> Position(b, rects),
     rotate |-> params.rotate, scanouts |-> Scanouts(b)]

\* What setScanout and setFBProperty refuse of a screen.  A GPU knows the size of a mode
\* only when it can ask the SSM.
BadScanout(screen) ==
    LET outs == screen.scanouts
        size == IF handed THEN <<MatchedMode.width, MatchedMode.height>> ELSE <<0, 0>>
    IN  \/ ~scan
        \/ \E p \in DOMAIN outs : p >= Ports \/ \E d \in 1..2 : outs[p][d] + size[d] > MaxFB[d]

BadScreen(screen) ==
    \/ \E d \in 1..2 : screen.resolution[d] \notin MinScreen[d]..MaxScreen
    \/ params.group_blocks # None2 /\ \E d \in 1..2 : screen.position[d] < 0

\* getFBProperty("resolution"): the size that a client sees, rotated.
Seen(screen) ==
    IF screen.rotate \in {"portrait", "inverted_portrait"}
    THEN <<screen.resolution[2], screen.resolution[1]>> ELSE screen.resolution

\* getCombinedScreen: what Xinerama makes of the screens of an X server.  The height
\* is computed from the widths.
Combined(scr) ==
    LET far(d) == Max({scr[n].position[d] + Seen(scr[n])[1] : n \in DOMAIN scr})
    IN  <<far(1), far(2)>>

\* The box around the areas of a set of blocks.
Box(bs, rects) ==
    <<Min({rects[b][1] : b \in bs}), Min({rects[b][2] : b \in bs}),
      Max({rects[b][3] : b \in bs}), Max({rects[b][4] : b \in bs})>>

\* effectiveLayoutMatrix: the areas as clients see them, and the screens to draw on.
\* With Xinerama there is one for each group, on the X server of its first block.
Effective(scrs, rects) ==
    IF params.combine_displays
    THEN [b \in {GroupStart(c) : c \in DOMAIN rects} |->
            [server |-> ServerOf(b), rect |-> Box({c \in DOMAIN rects : GroupStart(c) = b}, rects),
             resolution |-> Combined(scrs[ServerOf(b)])]]
    ELSE [b \in DOMAIN rects |->
            [server |-> ServerOf(b), rect |-> rects[b],
             resolution |-> Seen(scrs[ServerOf(b)][b - GpusBefore(ServerOf(b))])]]

\* A None beside a number is replaced in the list that the parameter holds.
ClipFilled ==
    IF params.clip_last_block = <<>> THEN params
    ELSE [params EXCEPT !.clip_last_block = <<Clip(1), Clip(2)>>]

\* What setupXServers raises.  A quadroplex block reads the last row and column of
\* displays, which nobody has set.
SetupError(scrs) ==
    IF Validation # "ok" THEN Validation
    ELSE IF params.block_type = "quadroplex" THEN "UnboundLocalError"
    ELSE IF \E s \in DOMAIN scrs : \E n \in DOMAIN scrs[s] :
                BadScanout(scrs[s][n]) \/ BadScreen(scrs[s][n]) THEN "ValueError"
    ELSE "ok"

\* The screens of each X server, one for each of its GPUs.
Screens(rects) ==
    [s \in DOMAIN gpus |-> [n \in 0..(gpus[s] - 1) |-> NewScreen(GpusBefore(s) + n, rects)]]

\* Screens are put on the X servers at the end, when nothing can be refused any more.
SetupXServers ==
    LET rects == Rects
        scrs == Screens(rects)
    IN  /\ outcome' = SetupError(scrs)
        /\ params' = IF Validation = "ok" THEN ClipFilled ELSE params
        /\ IF outcome' = "ok"
           THEN /\ screens' = scrs
                /\ blocks' = rects
                /\ effective' = Effective(scrs, rects)
                /\ combined' = [s \in DOMAIN gpus |-> combined[s] \/ params.combine_displays]
           ELSE UNCHANGED <<screens, blocks, effective, combined>>

\* What the constructor makes of parameters: to combine displays is to combine all.
Parsed(p) ==
    IF p.combine_displays /\ p.group_blocks = None2
    THEN [p EXCEPT !.group_blocks = p.num_blocks] ELSE p

Init ==
    \E d \in Displays :
        /\ params = Parsed(d.params) /\ gpus = d.gpus /\ scan = d.scan
        /\ handed = FALSE /\ outcome = "none" /\ changes = 0
        /\ screens = [s \in DOMAIN d.gpus |-> << >>]
        /\ blocks = << >> /\ effective = << >>
        /\ combined = [s \in DOMAIN d.gpus |-> FALSE]

\* The SSM has granted the resource group.  If the setup fails then allocate() does,
\* and the user never gets to see it.
DecodeAllocation ==
    /\ ~handed /\ outcome = "none"
    /\ SetupXServers
    /\ handed' = (outcome' = "ok")
    /\ UNCHANGED <<gpus, scan, changes>>

\* setParam of the handler, with any value.  What is set as framelock is the bezels.
SetParam(name, value) ==
    /\ handed /\ changes < MaxChanges
    /\ params' = IF name = "framelock" THEN [params EXCEPT !.bezels = value]
                 ELSE [params EXCEPT ![name] = value]
    /\ outcome' = "none" /\ changes' = changes + 1
    /\ UNCHANGED <<gpus, scan, handed, blocks, screens, combined, effective>>

\* Allocation.setupViz.
SetupViz ==
    /\ handed
    /\ SetupXServers
    /\ UNCHANGED <<gpus, scan, handed, changes>>

Change == \E name \in DOMAIN Values : \E value \in Values[name] : SetParam(name, value)

Next == DecodeAllocation \/ Change \/ SetupViz

Spec == Init /\ [][Next]_vars
-----------------------------------------------------------------------------
(* Properties.  They are about the last setup, until a parameter changes.  *)

Done == outcome = "ok"
Apart(r, s) == r[3] <= s[1] \/ s[3] <= r[1] \/ r[4] <= s[2] \/ s[4] <= r[2]
At(place, size) == <<place[1], place[2], place[1] + size[1], place[2] + size[2]>>
Unclipped == params.clip_last_block \in {<<>>, Layout}

\* The variables have their types, and nobody has a resource group that no X server
\* shows: allocate() hands one out with screens on every X server (the code keeps
\* those of the last setup that worked).
TypeOK ==
    /\ outcome \in {"none", "ok", "ValueError", "TypeError", "IndexError", "UnboundLocalError"}
    /\ changes \in 0..MaxChanges
    /\ handed => \A s \in DOMAIN gpus : DOMAIN screens[s] = 0..(gpus[s] - 1)

\* The areas of the blocks, which applications cut their picture by, are apart and
\* leave nothing of the display out (the curX and curY of setupXServers), for any layout
\* and bezels, on walls that are turned to portrait, and on walls that are clipped.  Walls that
\* are both are left out: the blocks of a row then differ in height, the next row starts
\* where the last of them ends, and areas overlap or leave a gap.
BlocksTile ==
    Done /\ (Upright \/ Unclipped) =>
        /\ \A b, c \in DOMAIN blocks : b # c => Apart(blocks[b], blocks[c])
        /\ SumFunction([b \in DOMAIN blocks |->
                           (blocks[b][3] - blocks[b][1]) * (blocks[b][4] - blocks[b][2])])
           = blocks[NumBlocks - 1][3] * blocks[NumBlocks - 1][4]

\* On a wall that is neither rotated nor clipped, what is shown across displays is straight:
\* each display is as far from the next as its bezels are wide, within a block and from block
\* to block, in each mode of bezels.  Rotated walls are left out: see GapsInBlocks.
PanelsInPlace ==
    Done /\ params.rotate = "none" /\ Unclipped =>
        LET pitch == <<MatchedMode.width + Bezel("left") + Bezel("right"),
                       MatchedMode.height + Bezel("top") + Bezel("bottom")>>
            first == IF ForceBezels THEN <<Bezel("left"), Bezel("top")>> ELSE <<0, 0>>
        IN  \A s \in DOMAIN screens : \A n \in DOMAIN screens[s] :
                LET scr == screens[s][n] IN
                {[d \in 1..2 |-> blocks[scr.block][d] + scr.scanouts[p][d]] : p \in DOMAIN scr.scanouts}
                = {[d \in 1..2 |-> first[d] + pitch[d] * (IF d = 1 THEN Col(scr.block) * Layout[1] + x
                                                           ELSE Row(scr.block) * Layout[2] + y)]
                    : x \in 0..(Layout[1] - 1), y \in 0..(Layout[2] - 1)}

\* Within a block, a display is as far from the next as the bezels between them are wide,
\* however the wall is rotated.  The code does not see to this: upside down, with the bezels
\* of a desktop or with those of the borders left out, it asks for the bezels at the wrong
\* ends of the line.
GapsInBlocks ==
    Done /\ params.stereo_mode # "passive" =>
        LET pitch == <<MatchedMode.width + Bezel("left") + Bezel("right"),
                       MatchedMode.height + Bezel("top") + Bezel("bottom")>>
        IN  \A s \in DOMAIN screens : \A n \in DOMAIN screens[s] :
                LET scr == screens[s][n]
                    cell(p) == Cell(scr.block, OutputOf(scr.block, p))
                IN  \A p, q \in DOMAIN scr.scanouts : \A d \in 1..2 :
                        cell(q)[d] = cell(p)[d] + 1
                            => scr.scanouts[q][d] - scr.scanouts[p][d] = pitch[d]

\* The scanouts of a screen show different parts of its framebuffer, and nothing
\* beyond it; those of passive stereo show the same.
ScanoutsApart ==
    Done => \A s \in DOMAIN screens : \A n \in DOMAIN screens[s] :
        LET scr == screens[s][n]
            shown(p) == At(scr.scanouts[p], <<MatchedMode.width, MatchedMode.height>>)
        IN  /\ \A p \in DOMAIN scr.scanouts :
                /\ shown(p)[3] <= scr.resolution[1] /\ shown(p)[4] <= scr.resolution[2]
                /\ p < Ports
            /\ \A p, q \in DOMAIN scr.scanouts :
                p = q \/ params.stereo_mode = "passive" \/ Apart(shown(p), shown(q))

\* The screens of an X server are apart, when GPUs are grouped to X servers.
ScreensApart ==
    Done /\ params.group_blocks # None2 => \A s \in DOMAIN screens :
        \A n, m \in DOMAIN screens[s] :
            n = m \/ LET at(k) == At(screens[s][k].position, Seen(screens[s][k])) IN Apart(at(n), at(m))

\* The GPUs of each X server are a group, when they are put row by row.
GroupsInOrder ==
    LET g == params.group_blocks
    IN  /\ \A s \in DOMAIN gpus : gpus[s] = Product(g)
        /\ g[2] = 1 \/ g[1] = params.num_blocks[1]

\* Without groups, or when the GPUs of each X server are a group in row order (which those
\* of the sample configuration, two groups of 1x2 blocks, are not: see ScreensApart), where
\* applications draw is as large as what they draw there: an area of the effective layout has
\* the size of its screen.  With Xinerama this is said of the width alone, since the code makes
\* the height from widths.  And the screens of an X server are apart, but for groups that are
\* both rotated and clipped.
DrawnWhole ==
    Done /\ (params.group_blocks = None2 \/ GroupsInOrder) =>
        /\ Upright \/ Unclipped => ScreensApart
        /\ \A b \in DOMAIN effective :
            LET e == effective[b] IN
            /\ e.resolution[1] = e.rect[3] - e.rect[1]
            /\ ~params.combine_displays => e.resolution[2] = e.rect[4] - e.rect[2]

\* Xinerama is used on the X servers if and only if combine_displays says so.
CombinedAsAsked == Done => \A s \in DOMAIN combined : combined[s] = params.combine_displays
=============================================================================
