-------------------------------- MODULE Canvas --------------------------------
(***************************************************************************)
(* The canvas of the gallery, on its way from the chain to a page: the     *)
(* publisher of the pixel vat (lib/ag-solo/vats/pubsub.js), the HTTP vat   *)
(* of a solo that subscribes to it (vat-http.js) and the page, which asks  *)
(* for the canvas when its WebSocket opens and hears of changes on the     *)
(* socket (html/main.js).  The answer to the request comes on a connection *)
(* of its own, and only after the kernel's state is saved, so it may come  *)
(* after broadcasts that left later, or after the page has connected anew: *)
(* each connection is a run() with an oldState of its own.  Pages do not   *)
(* affect each other, and there is one here.                               *)
(***************************************************************************)
EXTENDS Integers, Sequences

CONSTANTS
  Pixels, Colors,
  MaxPublished,   \* bound on the states published
  MaxRuns         \* bound on connections of the page

VARIABLES
  lastPublished, subscribed,
  notifications,  \* calls of notify on their way to the HTTP vat
  canvasState,
  open,           \* the latest run of the page is connected
  runs,           \* how many runs there were
  call,           \* run -> "none", "asks", "answered", "heard"
  answer,         \* run -> the canvas it was answered
  socket,         \* canvases broadcast to the page and not yet handled
  oldState,       \* run -> what it takes for shown; None before it has shown any
  shown,
  late,           \* whether an answer came late: "no"; over a broadcast, which is
                  \* "mended" by the next; or to an "old" run, over what is shown
  published

vars == <<lastPublished, subscribed, notifications, canvasState, open, runs, call, answer,
          socket, oldState, shown, late, published>>
pageVars == <<open, runs, call, answer, oldState, shown, late>>

None == <<>>
States == [Pixels -> Colors]

Init ==
  /\ lastPublished = None /\ subscribed = FALSE /\ notifications = <<>>
  /\ canvasState = None
  /\ open = FALSE /\ runs = 0 /\ socket = <<>>
  /\ call = [r \in 1 .. MaxRuns |-> "none"]
  /\ answer = [r \in 1 .. MaxRuns |-> None]
  /\ oldState = [r \in 1 .. MaxRuns |-> None]
  /\ shown = None /\ late = "no" /\ published = 0

-----------------------------------------------------------------------------
(* pubsub. *)

Publish(m) ==
  /\ published < MaxPublished /\ published' = published + 1
  /\ m # lastPublished /\ lastPublished' = m
  /\ notifications' = IF subscribed THEN Append(notifications, m) ELSE notifications
  /\ UNCHANGED <<pageVars, subscribed, canvasState, socket>>

(* setPresences, once. *)
Subscribe ==
  /\ ~subscribed /\ subscribed' = TRUE
  /\ notifications' = IF lastPublished # None THEN Append(notifications, lastPublished)
                                              ELSE notifications
  /\ UNCHANGED <<pageVars, lastPublished, canvasState, socket, published>>

-----------------------------------------------------------------------------
(* The HTTP vat. *)

Notify ==
  /\ notifications # <<>>
  /\ notifications' = Tail(notifications)
  /\ canvasState' = Head(notifications)
  /\ socket' = IF open THEN Append(socket, canvasState') ELSE socket
  /\ UNCHANGED <<pageVars, lastPublished, subscribed, published>>

GetCanvasState(r) ==
  /\ call[r] = "asks"
  /\ call' = [call EXCEPT ![r] = "answered"]
  /\ answer' = [answer EXCEPT ![r] = canvasState]
  /\ UNCHANGED <<lastPublished, subscribed, notifications, canvasState, open, runs, socket,
                 oldState, shown, late, published>>

-----------------------------------------------------------------------------
(* The page. *)

(* The pixels of an earlier run stay until updateCanvas makes them anew. *)
Open ==
  /\ ~open /\ runs < MaxRuns
  /\ open' = TRUE /\ runs' = runs + 1
  /\ call' = [call EXCEPT ![runs'] = "asks"]
  /\ late' = "no"
  /\ UNCHANGED <<lastPublished, subscribed, notifications, canvasState, answer, socket,
                 oldState, shown, published>>

(* What was asked is answered all the same. *)
Close ==
  /\ open
  /\ open' = FALSE /\ socket' = <<>>
  /\ UNCHANGED <<lastPublished, subscribed, notifications, canvasState, runs, call, answer,
                 oldState, shown, late, published>>

\* Mutant: renderPixel does not enter the color in oldState.
KeepOldState(r, state) ==
  oldState' = [oldState EXCEPT ![r] = IF @ = None THEN state ELSE @]

SetOldState(r, state) == oldState' = [oldState EXCEPT ![r] = state]

(* Only pixels that differ from oldState are painted. *)
UpdateCanvas(r, state) ==
  /\ shown' = IF oldState[r] = None THEN state
              ELSE [p \in Pixels |-> IF state[p] # oldState[r][p] THEN state[p]
                                                                  ELSE shown[p]]
  /\ SetOldState(r, state)

(* The answer {} of a vat that has heard of no canvas is not shown. *)
HearAnswer(r) ==
  /\ call[r] = "answered" /\ call' = [call EXCEPT ![r] = "heard"]
  /\ IF answer[r] = None THEN UNCHANGED <<oldState, shown, late>>
     ELSE /\ UpdateCanvas(r, answer[r])
          /\ late' = CASE r = runs /\ late = "no" /\ oldState[r] \notin {None, answer[r]} -> "mended"
                       [] r # runs /\ oldState[runs] # None -> "old"
                       [] OTHER -> late
  /\ UNCHANGED <<lastPublished, subscribed, notifications, canvasState, open, runs, answer,
                 socket, published>>

HandleMessage ==
  /\ socket # <<>> /\ socket' = Tail(socket)
  /\ UpdateCanvas(runs, Head(socket))
  /\ late' = IF late = "mended" THEN "no" ELSE late
  /\ UNCHANGED <<lastPublished, subscribed, notifications, canvasState, open, runs, call,
                 answer, published>>

Next ==
  \/ \E m \in States : Publish(m)
  \/ Subscribe \/ Notify
  \/ \E r \in 1 .. MaxRuns : GetCanvasState(r) \/ HearAnswer(r)
  \/ Open \/ Close \/ HandleMessage

Spec == Init /\ [][Next]_vars

-----------------------------------------------------------------------------
(* Properties. *)

(* vat-http.js l.144: canvasState is what was published last, and pages    *)
(* are told of it.  When nothing is on its way, a connected page shows the *)
(* canvas as it was last published, whenever the solo subscribed and the   *)
(* page connected, and however often colors changed back and forth; unless *)
(* the answer to its request came after a newer broadcast, until the next  *)
(* one, or an answer to an earlier run came, until the next run.           *)
ShowsLastPublished ==
  /\ subscribed /\ lastPublished # None /\ notifications = <<>>
  /\ open /\ call[runs] = "heard" /\ socket = <<>> /\ late = "no"
  => shown = lastPublished
=============================================================================
