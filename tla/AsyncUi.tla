---- MODULE AsyncUi ----
(***************************************************************************)
(* Background work and its way back to the main loop: workers put their    *)
(* results into one queue, timers of the widgets (pumps) empty it.         *)
(*                                                                         *)
(* The main loop runs one thing at a time: the user's actions, a pump, the *)
(* callbacks the pump finds. Workers run beside it.  What a widget's timer *)
(* would do after the widget was destroyed is not done.  Left out are the  *)
(* second timer of a widget that is given work by a callback of its own    *)
(* pump, and run_background when its timer cannot be set, which takes its  *)
(* worker back and leaves everything as it was.                            *)
(***************************************************************************)
EXTENDS Integers, Sequences

CONSTANTS Widgets,
          MaxWork    \* bound: calls of run_background, and widgets hidden

ASSUME UiAssumption == MaxWork \in Nat

VARIABLES queue,     \* _QUEUE: the widgets the results are for
          active,    \* _ACTIVE
          pump,      \* pump[w]: _async_pump_after is set
          alive,     \* winfo_exists
          working,   \* workers of a widget that have not put their result
          leaving,   \* workers that have put it and still count as active
          main,      \* the widget whose pump runs, and how far it is
          stranded,  \* history: a pump went away and none came since
          given, hidden
uiVars == <<queue, active, pump, alive, working, leaving, main, stranded, given, hidden>>

NoPump == [at |-> "loop", of |-> "none", some |-> FALSE]

UiInit ==
    /\ queue = <<>> /\ active = 0
    /\ pump = [w \in Widgets |-> FALSE] /\ alive = [w \in Widgets |-> TRUE]
    /\ working = [w \in Widgets |-> 0] /\ leaving = 0
    /\ main = NoPump
    /\ stranded = FALSE
    /\ given = 0 /\ hidden = 0

----------------------------------------------------------------------------
(* The user, on the main loop.                                             *)

\* run_background, from the main loop or from a callback.
Given(w) ==
    /\ alive[w]
    /\ given < MaxWork /\ given' = given + 1
    /\ active' = active + 1
    /\ pump' = [pump EXCEPT ![w] = TRUE]
    /\ working' = [working EXCEPT ![w] = @ + 1]
    /\ stranded' = FALSE

RunBackground(w) ==
    /\ main.at = "loop" /\ Given(w)
    /\ UNCHANGED <<queue, alive, leaving, main, hidden>>

\* The pump that is set on a widget goes away.
Unset(w) ==
    /\ alive[w]
    /\ stranded' = (stranded \/ pump[w])
    /\ pump' = [pump EXCEPT ![w] = FALSE]

\* cancel_pump, when a view is hidden.
CancelPump(w) ==
    /\ main.at = "loop" /\ Unset(w)
    /\ hidden < MaxWork /\ hidden' = hidden + 1
    /\ UNCHANGED <<queue, active, alive, working, leaving, main, given>>

\* A widget is destroyed, from the main loop or from a callback.
Removed(w) == Unset(w) /\ alive' = [alive EXCEPT ![w] = FALSE] /\ UNCHANGED <<active, working, given>>

Destroy(w) ==
    /\ main.at = "loop" /\ Removed(w)
    /\ UNCHANGED <<queue, leaving, main, hidden>>

----------------------------------------------------------------------------
(* Workers.                                                                *)

\* The work is over, well or badly.
Put(w) ==
    /\ working[w] > 0
    /\ working' = [working EXCEPT ![w] = @ - 1]
    /\ queue' = Append(queue, w) /\ leaving' = leaving + 1
    /\ UNCHANGED <<active, pump, alive, main, stranded, given, hidden>>

Leave ==
    /\ leaving > 0 /\ leaving' = leaving - 1
    /\ active' = active - 1
    /\ UNCHANGED <<queue, pump, alive, working, main, stranded, given, hidden>>

----------------------------------------------------------------------------
(* The pump.                                                               *)

PumpFires(w) ==
    /\ main.at = "loop" /\ pump[w]
    /\ pump' = [pump EXCEPT ![w] = FALSE]
    /\ main' = [NoPump EXCEPT !.at = "drain", !.of = w]
    /\ UNCHANGED <<queue, active, alive, working, leaving, stranded, given, hidden>>

\* One result; its callbacks run if its widget exists, and may give work or
\* destroy a widget, the one that is pumped included.
Drain ==
    /\ main.at = "drain" /\ queue # <<>>
    /\ queue' = Tail(queue)
    /\ \/ UNCHANGED <<active, pump, alive, working, stranded, given>>
       \/ Given(Head(queue)) /\ UNCHANGED alive
       \/ alive[Head(queue)] /\ \E w \in Widgets : Removed(w)
    /\ UNCHANGED <<leaving, main, hidden>>

Drained ==
    /\ main.at = "drain" /\ queue = <<>>
    /\ main' = [main EXCEPT !.at = "count"]
    /\ UNCHANGED <<queue, active, pump, alive, working, leaving, stranded, given, hidden>>

\* Mutant of CountActive: nobody looks at the workers.
CountNone ==
    /\ main.at = "count"
    /\ main' = [main EXCEPT !.at = "look", !.some = FALSE]
    /\ UNCHANGED <<queue, active, pump, alive, working, leaving, stranded, given, hidden>>

CountActive ==
    /\ main.at = "count"
    /\ main' = [main EXCEPT !.at = "look", !.some = active > 0]
    /\ UNCHANGED <<queue, active, pump, alive, working, leaving, stranded, given, hidden>>

Again(needed) ==
    LET set == needed /\ alive[main.of]
    IN /\ pump' = IF set THEN [pump EXCEPT ![main.of] = TRUE] ELSE pump
       /\ stranded' = ((stranded \/ needed) /\ ~ set)

\* Mutant of Reschedule: the queue was empty, so only the workers count.
RescheduleActive ==
    /\ main.at = "look" /\ main' = NoPump /\ Again(main.some)
    /\ UNCHANGED <<queue, active, alive, working, leaving, given, hidden>>

\* Workers remain, or a result came after the drain: again in 50 ms, unless
\* the pumped widget is gone.
Reschedule ==
    /\ main.at = "look" /\ main' = NoPump /\ Again(main.some \/ queue # <<>>)
    /\ UNCHANGED <<queue, active, alive, working, leaving, given, hidden>>

PumpStep == Drain \/ Drained \/ CountActive \/ Reschedule

UiNext ==
    \/ \E w \in Widgets :
        RunBackground(w) \/ CancelPump(w) \/ Destroy(w) \/ Put(w) \/ PumpFires(w)
    \/ Leave \/ PumpStep

UiSpec == UiInit /\ [][UiNext]_uiVars

\* Work ends, workers run, and so does the main loop with its timers.
UiFair ==
    /\ WF_uiVars(Leave) /\ WF_uiVars(PumpStep)
    /\ \A w \in Widgets : WF_uiVars(Put(w)) /\ SF_uiVars(PumpFires(w))

UiFairSpec == UiSpec /\ UiFair

----------------------------------------------------------------------------
UiTypeOK ==
    /\ queue \in Seq(Widgets) /\ active \in Nat /\ leaving \in Nat
    /\ pump \in [Widgets -> BOOLEAN] /\ alive \in [Widgets -> BOOLEAN]
    /\ working \in [Widgets -> Nat]
    /\ main \in [at : {"loop", "drain", "count", "look"}, of : Widgets \cup {"none"}, some : BOOLEAN]
    /\ stranded \in BOOLEAN /\ given \in Nat /\ hidden \in Nat

Owed == queue # <<>> \/ \E w \in Widgets : working[w] > 0

\* While a result is in the queue or in the making a pump is set or running,
\* unless the last one was cancelled or went with its widget.
ResultHasPump == Owed => main.at # "loop" \/ stranded \/ \E w \in Widgets : pump[w]

\* Every result is taken out of the queue, unless a pump is lost on the way.
ResultDelivered == Owed ~> (~ Owed \/ stranded)
====
