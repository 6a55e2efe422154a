---- MODULE TextTime ----
(***************************************************************************)
(* The two textual time formats whose string order the sync cursors use.   *)
(* A desktop row carries "YYYY-MM-DD HH:MM:SS" in local time; the Worker   *)
(* answers with "YYYY-MM-DDTHH:MM:SS.sssZ" in UTC.  SQLite and D1 compare  *)
(* them as strings, where ' ' sorts below 'T': day first, then separator,  *)
(* then the time of day.                                                   *)
(***************************************************************************)
LOCAL INSTANCE Integers

CONSTANTS DayLen,     \* instants in one day
          UtcOffset   \* how far local time is ahead of UTC

ASSUME TimeAssumption == DayLen \in Nat \ {0} /\ UtcOffset \in Nat

Text == [day : Int, iso : {0, 1}, sec : Nat]

\* The empty string: no cursor, and below every timestamp.
Empty == [day |-> -1, iso |-> 0, sec |-> 0]

\* datetime.now().strftime("%Y-%m-%d %H:%M:%S") on a machine whose UTC clock
\* shows t.
RowText(t) ==
    [day |-> (t + UtcOffset) \div DayLen, iso |-> 0, sec |-> (t + UtcOffset) % DayLen]

\* new Date().toISOString() on the Worker at instant t.
IsoText(t) == [day |-> t \div DayLen, iso |-> 1, sec |-> t % DayLen]

\* String order.
TextLess(a, b) ==
    \/ a.day < b.day
    \/ a.day = b.day /\ a.iso < b.iso
    \/ a.day = b.day /\ a.iso = b.iso /\ a.sec < b.sec

TextLeq(a, b) == a = b \/ TextLess(a, b)

\* _parse_updated_at: a timestamp without a zone is read as UTC.
Epoch(x) == x.day * DayLen + x.sec
====
