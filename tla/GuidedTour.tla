------------------------------- MODULE GuidedTour -------------------------------
(***************************************************************************)
(* The guided tour (common/static/js/frepple.js, tour), as far as it stays *)
(* on one page: a record                                                   *)
(*   open      its dialog is displayed                                     *)
(*   starting  the script with the chapters is being loaded                *)
(*   chapter, step   counted from one                                      *)
(*   autoplay  0, 1 (until the last step) or 2 (over and over again)       *)
(*   timer     the timer to which timeout refers has not fired yet         *)
(*   orphans   how many timers are still to fire to which nothing refers   *)
(*   previous, next   its buttons are enabled                              *)
(*   stalled   history: the user refused to leave for the step's page      *)
(***************************************************************************)
EXTENDS Integers, Sequences

CONSTANT Chapters     (* tourdata: the url of each step of each chapter    *)

ASSUME ChaptersAssumption ==
  /\ DOMAIN Chapters = 1..Len(Chapters) /\ Len(Chapters) \in Nat \ {0}
  /\ \A c \in DOMAIN Chapters :
       DOMAIN Chapters[c] = 1..Len(Chapters[c]) /\ Len(Chapters[c]) \in Nat \ {0}

Autoplay == 0..2
Place == UNION {{<<c, s>> : s \in DOMAIN Chapters[c]} : c \in DOMAIN Chapters}

TourState ==
  [open : BOOLEAN, starting : BOOLEAN, chapter : DOMAIN Chapters, step : Nat \ {0},
   autoplay : Autoplay, timer : BOOLEAN, orphans : Nat, previous : BOOLEAN, next : BOOLEAN,
   stalled : BOOLEAN]

NoTour ==
  [open |-> FALSE, starting |-> FALSE, chapter |-> 1, step |-> 1, autoplay |-> 0,
   timer |-> FALSE, orphans |-> 0, previous |-> FALSE, next |-> FALSE, stalled |-> FALSE]

At(t) == <<t.chapter, t.step>>
Url(t) == Chapters[t.chapter][t.step]

AtFirst(t) == t.chapter = 1 /\ t.step = 1
AtLast(t) == t.chapter = Len(Chapters) /\ t.step = Len(Chapters[t.chapter])

(* start(args): the arguments are taken over before the script is there.   *)
Start(t, chapter, step, autoplay) ==
  [t EXCEPT !.chapter = chapter, !.step = step, !.autoplay = autoplay, !.starting = TRUE,
            !.stalled = FALSE]

(* toggleAutoplay() when it plays: only the last timer is cleared.         *)
StopAutoplay(t) == [t EXCEPT !.autoplay = 0, !.timer = FALSE]

(* next() and prev(), up to showStep()                                     *)
Ends(t) == AtLast(t) /\ t.autoplay # 2

Forward(t) ==
  IF t.step < Len(Chapters[t.chapter]) THEN [t EXCEPT !.step = @ + 1]
  ELSE IF t.chapter < Len(Chapters) THEN [t EXCEPT !.chapter = @ + 1, !.step = 1]
  ELSE [t EXCEPT !.chapter = 1, !.step = 1]

Backward(t) ==
  IF t.step > 1 THEN [t EXCEPT !.step = @ - 1]
  ELSE [t EXCEPT !.chapter = @ - 1, !.step = Len(Chapters[t.chapter - 1])]

(* Variant: the timer is only set when autoplay begins.                    *)
ShowOnce(t) ==
  [t EXCEPT !.previous = t.open /\ ~AtFirst(t), !.next = t.open /\ ~AtLast(t), !.stalled = FALSE]

(* showStep() on the page of the step: the timer that timeout referred to  *)
(* is not cleared.                                                         *)
Show(t) ==
  [t EXCEPT !.timer = @ \/ t.autoplay # 0,
            !.orphans = IF t.timer /\ t.autoplay # 0 THEN @ + 1 ELSE @,
            !.previous = t.open /\ ~AtFirst(t), !.next = t.open /\ ~AtLast(t),
            !.stalled = FALSE]

(* The dialog is closed.                                                   *)
Close(t) ==
  [t EXCEPT !.open = FALSE, !.chapter = 1, !.step = 1, !.autoplay = 0, !.timer = FALSE,
            !.previous = FALSE, !.next = FALSE, !.stalled = FALSE]

Playing(t) == (t.open \/ t.starting) /\ t.autoplay # 0
=================================================================================
