--------------------------- MODULE MCTiledDisplay ---------------------------
(***************************************************************************)
(* Instances of TiledDisplay: walls of two and four GPUs.                  *)
(***************************************************************************)

EXTENDS TiledDisplay

Mode(alias, width, height, refresh, l, r, t, b) ==
    [alias |-> alias, width |-> width, height |-> height, refresh |-> refresh,
     bezel |-> [left |-> l, right |-> r, top |-> t, bottom |-> b]]

MCModes == <<Mode("SXGA", 1280, 1024, 60, 10, 20, 30, 40),
             Mode("SXGA75", 1280, 1024, 75, 12, 25, 30, 40),
             Mode("VGA", 640, 480, 60, 5, 10, 14, 19)>>
MCMaxFB == <<4096, 2048>>

Params(num, layout, group, combine) ==
    [block_type |-> "gpu", num_blocks |-> num, block_display_layout |-> layout,
     group_blocks |-> group, combine_displays |-> combine, rotate |-> "none", bezels |-> "None",
     clip_last_block |-> <<>>, stereo_mode |-> "none", remap_display_outputs |-> <<None>>,
     display_mode |-> [kind |-> "default"], tile_resolution |-> None2]

Display(params_, gpus_, scan_) == [params |-> params_, gpus |-> gpus_, scan |-> scan_]

MCDisplays ==
    {Display(Params(<<2, 2>>, <<2, 1>>, None2, FALSE), <<2, 2>>, TRUE),
     Display(Params(<<2, 2>>, <<2, 1>>, <<2, 1>>, TRUE), <<2, 2>>, TRUE),
     Display(Params(<<2, 1>>, <<1, 1>>, None2, TRUE), <<2>>, TRUE),
     Display(Params(<<2, 1>>, <<1, 1>>, None2, FALSE), <<2>>, FALSE),
     Display(Params(<<3, 1>>, <<1, 2>>, None2, FALSE), <<1, 2>>, TRUE),
     Display(Params(<<2, 2>>, <<2, 1>>, <<2, 2>>, FALSE), <<4>>, TRUE)}

\* Walls as they may be turned, bordered and clipped when they are allocated.
AllDisplays ==
    MCDisplays \cup
    {[d EXCEPT !.params.rotate = r, !.params.bezels = "desktop", !.params.clip_last_block = c] :
        d \in {e \in MCDisplays : e.params.num_blocks = <<2, 2>>}, r \in {"none", "portrait"},
        c \in {<<>>, <<1, None>>}}

\* The samples of resource_group_config.xml: two groups of 2x2 displays side by side.
GroupDisplays ==
    {Display(Params(<<2, 2>>, <<2, 1>>, <<1, 2>>, combine), <<2, 2>>, TRUE) : combine \in BOOLEAN}

\* A wall that hangs upside down.
UpsideDown ==
    {[d EXCEPT !.params.rotate = "inverted_landscape", !.params.bezels = "desktop"] :
        d \in {e \in MCDisplays : e.params.num_blocks = <<2, 2>>}}

HardDisplays == GroupDisplays \cup UpsideDown

MCValues ==
    [block_type |-> {"quadroplex"}, num_blocks |-> {<<1, 4>>, <<4, 1>>, <<1, 2>>},
     block_display_layout |-> {<<1, 1>>, <<1, 2>>, <<2, 1>>, <<2, 2>>},
     group_blocks |-> {None2, <<2, 1>>, <<1, 2>>, <<2, 2>>}, combine_displays |-> BOOLEAN,
     rotate |-> {"portrait", "inverted_portrait", "inverted_landscape"},
     bezels |-> {"desktop", "disable", "all"}, framelock |-> {"True"},
     clip_last_block |-> {<<1, 1>>, <<1, None>>, <<None, 2>>}, stereo_mode |-> {"active", "passive"},
     remap_display_outputs |-> {<<1>>, <<1, 0>>, <<3, 1>>},
     display_mode |-> {[kind |-> "alias", alias |-> "VGA"], [kind |-> "alias", alias |-> "none"],
                       [kind |-> "size", size |-> <<1280, 1024>>],
                       [kind |-> "rate", size |-> <<1280, 1024>>]},
     tile_resolution |-> {<<1280, 1024>>, <<640, 480>>}]
=============================================================================
