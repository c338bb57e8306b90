------------------------------ MODULE Traceview ------------------------------
(***************************************************************************)
(* traceview: the full screen interface, from the first call of ncurses to *)
(* the last.                                                               *)
(*                                                                         *)
(* The program waits for a key, dispatches it and redraws.  A change of    *)
(* the terminal's size is a signal, and its handler redraws everything     *)
(* between any two statements of that.  What a key causes is a sequence of *)
(* statements (todo); a redraw of the list of functions or of one function *)
(* is itself divided into steps (step), since it shares static variables   *)
(* with the handler.  So does the first redraw of the list, which sorts    *)
(* the functions unless the flat profile has been printed before.  The     *)
(* loop over the lines of the list is one step.  COLS is taken to be wide  *)
(* enough, and no allocation fails.                                        *)
(***************************************************************************)
EXTENDS TraceviewKeys, FlatprofileWindow

CONSTANTS
  Sizes,      (* the heights the terminal may have                         *)
  Nfunctions, (* how many functions a trace may have                       *)
  Stray,      (* what an index may be that comes of an unfilled pointer    *)
  MaxLost,    (* bound: how far before the list a lost focus moves         *)
  AheadOnceMisread  (* bound: whether keys are typed ahead once lines were
                       misread                                             *)

(* Both are counted by an int, or fit in one.                              *)
ASSUME SizesAssumption == Sizes \subseteq 1 .. Word \div 2 - 1
ASSUME NfunctionsAssumption == Nfunctions \subseteq 0 .. Word \div 2 - 1
ASSUME StrayAssumption == Stray \subseteq 0 .. Word - 1
ASSUME MaxLostAssumption == MaxLost \in Nat
ASSUME AheadOnceMisreadAssumption == AheadOnceMisread \in BOOLEAN
ASSUME OrderAssumption ==
  \A n \in Nfunctions : \A f, g \in 0 .. n - 1 :
    /\ SelfTime[f] \in Nat /\ NameRank[f] \in Nat
    /\ NameRank[f] = NameRank[g] => f = g

VARIABLES
  pc, todo, step,
  height,     (* local of redraw_listing                                   *)
  rows,       (* the height of the window listing while its lines are drawn *)
  target,     (* argument of traceview_navigate_to_callgraph_function      *)
  focus, traceview_help_overlay_enabled,
  traceview_footer_index, traceview_titlebar_title,
  flatprofile,    (* the static variables of the list of functions         *)
  function_id,    (* the function shown in the call graph window           *)
  array,          (* the static array of the sorted functions: "null",
                     "filling" or "sorted"                                 *)
  LINES, nfunctions,
  screen,     (* what was drawn last: a window, and the help over it       *)
  result,     (* "running", "ok", "failed" or "crashed"                    *)
  disturbed,  (* history: a resize came inside the last redraw             *)
  cramped,    (* history: the focus left the list by a page of no lines    *)
  misread     (* history: lines were drawn from an array being filled      *)

drawVars == <<todo, step, height, rows, target>>
stateVars == <<focus, traceview_help_overlay_enabled, flatprofile, function_id, array>>
barVars == <<traceview_footer_index, traceview_titlebar_title>>
history == <<disturbed, cramped, misread>>
vars == <<keyVars, pc, drawVars, stateVars, barVars, LINES, nfunctions, screen, result, history>>

INTERACTIVE == 0
FLATPROFILE == 1
CALLGRAPH == 2
MEMPROFILE == 3
NOTHING == 4

HelpFits(lines) == 8 <= lines
PlainFits(lines) == 3 <= lines
TooSmall(lines) == lines < 12

Init ==
  /\ KeysInit
  /\ pc = "init" /\ todo = <<>> /\ step = "none"
  /\ height = 0 /\ rows = 0 /\ target = 0
  /\ focus = INTERACTIVE
  /\ traceview_help_overlay_enabled = FALSE
  /\ traceview_footer_index = 1 /\ traceview_titlebar_title = NOTHING
  /\ flatprofile = FlatprofileInit
  /\ function_id = 0
  /\ array \in {"null", "sorted"}
  /\ LINES \in Sizes
  /\ nfunctions \in Nfunctions
  /\ screen = [window |-> NOTHING, help |-> FALSE]
  /\ result = "running"
  /\ disturbed = FALSE
  /\ cramped = FALSE
  /\ misread = FALSE

(* traceview_init draws everything once, the help included, which the      *)
(* window then covers.                                                     *)
Initialise ==
  /\ pc = "init"
  /\ IF HelpFits(LINES)
     THEN /\ pc' = "get"
          /\ traceview_footer_index' = focus + 1
          /\ traceview_titlebar_title' = focus
          /\ screen' = [window |-> focus, help |-> FALSE]
          /\ UNCHANGED result
     ELSE /\ pc' = "fini"
          /\ result' = "failed"
          /\ UNCHANGED <<barVars, screen>>
  /\ UNCHANGED <<keyVars, drawVars, stateVars, LINES, nfunctions, history>>

-----------------------------------------------------------------------------
(* Waiting for a key.                                                      *)
PressKey ==
  /\ pc = "get"
  /\ AsInt(flatprofile.focus_index) >= -MaxLost
  /\ misread /\ ~AheadOnceMisread => line = <<>> /\ current = Root
  /\ \E code \in Typed \cup Unknown : Press(code)
  /\ UNCHANGED <<pc, drawVars, stateVars, barVars, LINES, nfunctions, screen, result,
                 history>>

GetKey ==
  /\ pc = "get"
  /\ Get
  /\ pc' = IF Returned THEN "dispatch" ELSE "get"
  /\ UNCHANGED <<drawVars, stateVars, barVars, LINES, nfunctions, screen, result,
                 history>>

(* What a key changes at once, and the statements it leaves to do.         *)
Do(statements) ==
  /\ todo' = statements
  /\ pc' = IF statements = <<>> THEN "get" ELSE "run"

SwitchToSilently == <<"footer", "title", "redraw anyway">>

SwitchTo == <<"footer", "title", "redraw anyway", "help if enabled">>

ToggleHelp ==
  /\ key = "F1"
  /\ traceview_help_overlay_enabled' = ~traceview_help_overlay_enabled
  /\ Do(IF traceview_help_overlay_enabled THEN <<"redraw">> ELSE <<"help">>)
  /\ UNCHANGED <<focus, flatprofile, function_id, target, result>>

Windows == <<"ALT_1", "ALT_2", "ALT_3", "ALT_4">>

SwitchWindow ==
  \E w \in 1 .. 4 :
    /\ key = Windows[w]
    /\ focus' = w - 1
    /\ Do(SwitchTo)
    /\ UNCHANGED <<traceview_help_overlay_enabled, flatprofile, function_id, target, result>>

Back ==
  /\ key \in {"ESCAPE", "QUIT"}
  /\ IF traceview_help_overlay_enabled
     THEN /\ traceview_help_overlay_enabled' = FALSE
          /\ Do(<<"redraw">>)
          /\ UNCHANGED result
     ELSE /\ pc' = IF key = "ESCAPE" THEN "get" ELSE "fini"
          /\ result' = IF key = "ESCAPE" THEN result ELSE "ok"
          /\ UNCHANGED <<todo, traceview_help_overlay_enabled>>
  /\ UNCHANGED <<focus, flatprofile, function_id, target>>

MoveFocus(k, moved) ==
  /\ key = k
  /\ flatprofile' = moved
  /\ Do(<<"redraw">>)
  /\ UNCHANGED <<focus, function_id, target>>

Navigate ==
  /\ key = "ENTER"
  /\ target' = flatprofile.focus_function
  /\ focus' = CALLGRAPH
  /\ Do(SwitchTo \o <<"navigate", "redraw">>)
  /\ UNCHANGED <<flatprofile, function_id>>

FlatprofileKey ==
  /\ focus = FLATPROFILE
  /\ \/ MoveFocus("ARROW_UP", ArrowUp(flatprofile))
     \/ MoveFocus("ARROW_DOWN", ArrowDown(flatprofile))
     \/ MoveFocus("PAGE_UP", PageUp(flatprofile))
     \/ MoveFocus("PAGE_DOWN", PageDown(flatprofile))
     \/ Navigate

MoveFunction(k, id) ==
  /\ key = k
  /\ function_id' = id
  /\ Do(<<"redraw">>)
  /\ UNCHANGED <<focus, flatprofile, target>>

Next1Unbounded(id) == U(id + 1)
Next1(id) == Least(U(nfunctions - 1), U(id + 1))
Previous1(id) == Greatest(1, id) - 1

CallgraphKey ==
  /\ focus = CALLGRAPH
  /\ \/ MoveFunction("ARROW_RIGHT", Next1(function_id))
     \/ MoveFunction("ARROW_LEFT", Previous1(function_id))

FlatprofileKeys == {"ARROW_UP", "ARROW_DOWN", "PAGE_UP", "PAGE_DOWN", "ENTER"}
CallgraphKeys == {"ARROW_RIGHT", "ARROW_LEFT"}

(* The keys a window has no use for, and all of them under the help.       *)
IgnoredKey ==
  /\ \/ traceview_help_overlay_enabled
     \/ ~ \/ focus = FLATPROFILE /\ key \in FlatprofileKeys
          \/ focus = CALLGRAPH /\ key \in CallgraphKeys
  /\ Do(<<>>)
  /\ UNCHANGED <<focus, flatprofile, function_id, target>>

MainLoopKey == key \in {"F1", "ESCAPE", "QUIT"} \cup ToSet(Windows)

WindowKey ==
  /\ ~MainLoopKey
  /\ \/ IgnoredKey
     \/ ~traceview_help_overlay_enabled /\ (FlatprofileKey \/ CallgraphKey)
  /\ UNCHANGED <<traceview_help_overlay_enabled, result>>

Dispatch ==
  /\ pc = "dispatch"
  /\ ToggleHelp \/ SwitchWindow \/ Back \/ WindowKey
  /\ Taken
  /\ cramped' = /\ flatprofile'.focus_index >= nfunctions
                /\ \/ cramped
                   \/ key \in {"PAGE_UP", "PAGE_DOWN"} /\ AsInt(flatprofile.items_shown) < 0
  /\ UNCHANGED <<step, height, rows, array, barVars, LINES, nfunctions, screen, disturbed,
                 misread>>

-----------------------------------------------------------------------------
(* The statements a key leaves to do.  The first one of todo is running.   *)
Finished ==
  /\ todo' = Tail(todo)
  /\ step' = "none"
  /\ height' = 0 /\ rows' = 0
  /\ pc' = IF Tail(todo) = <<>> THEN "get" ELSE "run"
  /\ UNCHANGED result

(* A failed redraw returns -1 to the caller, and so on up to               *)
(* traceview_main; only switch_focus does not look at what a window's      *)
(* redraw has returned.                                                    *)
Failed ==
  IF Head(todo) = "redraw anyway"
  THEN Finished
  ELSE /\ pc' = "fini"
       /\ result' = "failed"
       /\ todo' = <<>>
       /\ step' = "none"
       /\ height' = 0 /\ rows' = 0

Footer ==
  /\ Head(todo) = "footer"
  /\ traceview_footer_index' = focus + 1
  /\ Finished
  /\ UNCHANGED <<traceview_titlebar_title, screen, function_id, target>>

Title ==
  /\ Head(todo) = "title"
  /\ traceview_titlebar_title' = focus
  /\ Finished
  /\ UNCHANGED <<traceview_footer_index, screen, function_id, target>>

Help ==
  /\ \/ Head(todo) = "help"
     \/ Head(todo) = "help if enabled" /\ traceview_help_overlay_enabled
  /\ IF HelpFits(LINES)
     THEN /\ screen' = [screen EXCEPT !.help = TRUE]
          /\ Finished
     ELSE /\ Failed
          /\ UNCHANGED screen
  /\ UNCHANGED <<barVars, function_id, target>>

NoHelp ==
  /\ Head(todo) = "help if enabled" /\ ~traceview_help_overlay_enabled
  /\ Finished
  /\ UNCHANGED <<barVars, screen, function_id, target>>

ShowTarget ==
  /\ Head(todo) = "navigate"
  /\ function_id' = target
  /\ target' = 0
  /\ Finished
  /\ UNCHANGED <<barVars, screen>>

Statement ==
  /\ pc = "run"
  /\ Footer \/ Title \/ Help \/ NoHelp \/ ShowTarget
  /\ UNCHANGED <<keyVars, focus, traceview_help_overlay_enabled, flatprofile, array,
                 LINES, nfunctions, history>>

-----------------------------------------------------------------------------
(* The redraw of a window.                                                 *)
Redrawing == pc = "run" /\ Head(todo) \in {"redraw", "redraw anyway"}

Shown(window) == [window |-> window, help |-> FALSE]

(* A window without a list is drawn in one go.                             *)
RedrawPlain ==
  /\ focus \in {INTERACTIVE, MEMPROFILE}
  /\ IF PlainFits(LINES)
     THEN Finished /\ screen' = Shown(focus)
     ELSE Failed /\ UNCHANGED screen
  /\ disturbed' = FALSE
  /\ UNCHANGED flatprofile

GoTo(next) == step' = next /\ UNCHANGED <<pc, todo, height, rows, result>>

Crash == result' = "crashed" /\ pc' = "exited"

(* The header of the call graph window names the function.  Without any    *)
(* there is no array either; behind its end there may be something.        *)
Outside == focus = CALLGRAPH /\ function_id >= nfunctions

Header ==
  /\ step = "none" /\ focus \in {FLATPROFILE, CALLGRAPH}
  /\ \/ ~HeaderFits(LINES) /\ Failed
     \/ HeaderFits(LINES) /\ Outside /\ Crash /\ UNCHANGED <<todo, step, height, rows>>
     \/ HeaderFits(LINES) /\ (Outside => nfunctions > 0) /\ GoTo("measure")
  /\ disturbed' = FALSE
  /\ UNCHANGED <<flatprofile, screen>>

Measure ==
  /\ step = "measure"
  /\ height' = Height(LINES)
  /\ step' = IF focus = FLATPROFILE THEN "count" ELSE "place"
  /\ UNCHANGED <<pc, todo, rows, result, flatprofile, screen, disturbed>>

Scroll ==
  /\ \/ /\ step = "count"
        /\ flatprofile' = Counted(flatprofile, height, nfunctions)
        /\ GoTo("up")
     \/ /\ step = "up"
        /\ flatprofile' = FollowedUp(flatprofile)
        /\ GoTo("compare")
     \/ /\ step = "compare"
        /\ GoTo(IF BelowEnd(flatprofile) THEN "down" ELSE "place")
        /\ UNCHANGED flatprofile
     \/ /\ step = "down"
        /\ flatprofile' = FollowedDown(flatprofile)
        /\ GoTo("place")
  /\ UNCHANGED <<screen, disturbed>>

Place ==
  /\ step = "place"
  /\ IF ~Placeable(height, LINES)
     THEN Failed /\ UNCHANGED screen
     ELSE IF focus = FLATPROFILE
     THEN /\ step' = "sort"
          /\ rows' = height
          /\ UNCHANGED <<pc, todo, height, result, screen>>
     ELSE Finished /\ screen' = Shown(CALLGRAPH)
  /\ UNCHANGED <<flatprofile, disturbed>>

(* function_get_all_sorted publishes the array before it fills and sorts   *)
(* it.                                                                     *)
Sort ==
  /\ \/ /\ step = "sort"
        /\ GoTo(IF array = "null" THEN "alloc" ELSE "lines")
        /\ UNCHANGED array
     \/ /\ step = "alloc"
        /\ array' = "filling"
        /\ GoTo("fill")
     \/ /\ step = "fill"
        /\ array' = "sorted"
        /\ GoTo("lines")
  /\ UNCHANGED <<flatprofile, screen, disturbed>>

Lines ==
  /\ step = "lines"
  /\ flatprofile' = Drawn(flatprofile, nfunctions)
  /\ IF Drawable(flatprofile, nfunctions, rows)
     THEN Finished /\ screen' = Shown(FLATPROFILE)
     ELSE Failed /\ UNCHANGED screen
  /\ UNCHANGED disturbed

Redraw ==
  /\ Redrawing
  /\ \/ (RedrawPlain \/ Header \/ Measure \/ Scroll \/ Place \/ Lines) /\ UNCHANGED array
     \/ Sort
  /\ UNCHANGED <<keyVars, target, focus, traceview_help_overlay_enabled, function_id, barVars,
                 LINES, nfunctions, cramped, misread>>

-----------------------------------------------------------------------------
(* traceview_on_resize, the handler of SIGWINCH.  It redraws the bars, the *)
(* window and, if enabled, the help; what fails is only warned about.      *)
WindowRedrawn(lines) ==
  CASE focus = FLATPROFILE -> Redrawable(flatprofile, lines, nfunctions)
    [] focus = CALLGRAPH   -> HeaderFits(lines) /\ Placeable(Height(lines), lines)
    [] OTHER               -> PlainFits(lines)

(* It sorts the functions itself if there is no array yet; one that is     *)
(* being filled it takes as it is.                                         *)
Lists(lines) ==
  focus = FLATPROFILE /\ HeaderFits(lines) /\ Placeable(Height(lines), lines)

Misreads(lines) ==
  /\ Lists(lines) /\ array = "filling"
  /\ LinesDrawn(Redrawn(flatprofile, lines, nfunctions), nfunctions)

MustCrash(lines) == pc = "init" \/ (HeaderFits(lines) /\ Outside /\ nfunctions = 0)

MayCrash(lines) ==
  MustCrash(lines) \/ (HeaderFits(lines) /\ Outside) \/ Misreads(lines)

(* What it makes of the list: any line may turn out to be the focused one. *)
HandlerLists(lines) ==
  LET new == Redrawn(flatprofile, lines, nfunctions)
  IN  flatprofile' \in
        IF focus # FLATPROFILE THEN {flatprofile}
        ELSE IF Misreads(lines) /\ FocusDrawn(new, nfunctions)
        THEN {[new EXCEPT !.focus_function = f] : f \in (0 .. nfunctions - 1) \cup Stray}
        ELSE {new}

HandlerRedraws(lines) ==
  /\ HandlerLists(lines)
  /\ array' = IF Lists(lines) /\ array = "null" THEN "sorted" ELSE array
  /\ rows' = IF step \notin {"sort", "alloc", "fill", "lines"} THEN rows
             ELSE IF Placeable(Height(lines), lines) THEN Height(lines)
             ELSE Least(rows, Greatest(1, lines - 7))
  /\ screen' = [window |-> IF WindowRedrawn(lines) THEN focus ELSE NOTHING,
                help   |-> traceview_help_overlay_enabled /\ HelpFits(lines)]

(* It may come anywhere, and also end the wait for a key.  What it draws   *)
(* when the program is about to leave is no longer looked at.              *)
Resize ==
  /\ pc \notin {"fini", "exited"}
  /\ LINES' \in Sizes
  /\ disturbed' = (pc = "run" /\ step # "none")
  /\ misread' = (misread \/ Misreads(LINES'))
  /\ \/ /\ MayCrash(LINES')
        /\ Crash
        /\ UNCHANGED <<keyVars, flatprofile, array, rows, screen>>
     \/ /\ ~MustCrash(LINES')
        /\ HandlerRedraws(LINES')
        /\ UNCHANGED result
        /\ \/ UNCHANGED <<keyVars, pc>>
           \/ pc = "get" /\ WaitInterrupted /\ pc' = "dispatch"
  /\ UNCHANGED <<todo, step, height, target, focus, traceview_help_overlay_enabled,
                 function_id, barVars, nfunctions, cramped>>

(* traceview_fini, after which graprof exits.                              *)
Fini ==
  /\ pc = "fini"
  /\ pc' = "exited"
  /\ UNCHANGED <<keyVars, drawVars, stateVars, barVars, LINES, nfunctions, screen, result,
                 history>>

Next ==
  \/ Initialise \/ PressKey \/ GetKey \/ Dispatch
  \/ Statement \/ Redraw \/ Resize \/ Fini

Spec == Init /\ [][Next]_vars

-----------------------------------------------------------------------------
(* Types, with every unsigned variable in its range.                       *)
Unsigned == 0 .. Word - 1

TypeOK ==
  /\ pc \in {"init", "get", "dispatch", "run", "fini", "exited"}
  /\ todo \in Seq({"footer", "title", "redraw", "redraw anyway", "help", "help if enabled",
                   "navigate"})
  /\ pc = "run" => todo # <<>>
  /\ step \in {"none", "measure", "count", "up", "compare", "down", "place", "sort", "alloc",
              "fill", "lines"}
  /\ array \in {"null", "filling", "sorted"}
  /\ height \in Unsigned /\ rows \in Unsigned /\ target \in Unsigned /\ function_id \in Unsigned
  /\ focus \in 0 .. 3 /\ traceview_help_overlay_enabled \in BOOLEAN
  /\ traceview_footer_index \in 1 .. 4 /\ traceview_titlebar_title \in 0 .. NOTHING
  /\ \A field \in DOMAIN flatprofile : flatprofile[field] \in Unsigned
  /\ LINES \in Sizes /\ nfunctions \in Nfunctions
  /\ screen \in [window : 0 .. NOTHING, help : BOOLEAN]
  /\ result \in {"running", "ok", "failed", "crashed"}
  /\ disturbed \in BOOLEAN /\ cramped \in BOOLEAN /\ misread \in BOOLEAN
  /\ current \in Nodes

(* Every key pressed is dispatched, once, in order and as itself, unless   *)
(* its bytes came torn apart, behind a lone ESC or behind an unknown code; *)
(* and after such bytes have been read, so are the keys that follow.       *)
KeysAsPressed ==
  /\ pc = "dispatch" => meant \in {key, "ANYTHING"}
  /\ pc = "get" /\ current = Root /\ line = <<>> => pressed = <<>>

(* No key and no resize, in whatever order, makes an index into one of the *)
(* arrays of functions leave it, unless a resize came while the functions  *)
(* were sorted for the first time; nor does the focus leave the list,      *)
(* unless a page was turned in a terminal without room for a line.         *)
IndexesInArray ==
  nfunctions > 0 =>
    /\ ~misread => flatprofile.focus_function < nfunctions /\ function_id < nfunctions
    /\ ~cramped => flatprofile.focus_index < nfunctions

(* When the list waits for a key, its focus is on the screen, and ENTER    *)
(* would show the function it is on; unless the size has changed inside of *)
(* the last redraw, or leaves no room for a line, or the focus was lost    *)
(* when it did.                                                            *)
FocusShown ==
  pc = "get" /\ focus = FLATPROFILE /\ ~disturbed /\ ~TooSmall(LINES) =>
    /\ flatprofile.items_shown = LINES - 11
    /\ flatprofile.focus_index < nfunctions =>
         /\ FocusDrawn(flatprofile, nfunctions)
         /\ flatprofile.focus_function = sorted_functions(nfunctions, flatprofile.focus_index)

(* When traceview waits for a key, the screen, with the bars and the help, *)
(* shows what the variables say, wherever resizes have come in between.    *)
ScreenIsState ==
  pc = "get" /\ ~TooSmall(LINES) =>
    /\ screen = [window |-> focus, help |-> traceview_help_overlay_enabled]
    /\ traceview_footer_index = focus + 1
    /\ traceview_titlebar_title = focus

(* traceview does not give up by itself unless the screen was too small or *)
(* its size changed inside of a redraw, and does not crash unless that     *)
(* happened before there was a window or while the functions were sorted   *)
(* for the first time, or there is no function at all.                     *)
StopsOnlyIf ==
  /\ result = "failed" => TooSmall(LINES) \/ disturbed
  /\ result = "crashed" => traceview_titlebar_title = NOTHING \/ nfunctions = 0 \/ misread

=============================================================================
