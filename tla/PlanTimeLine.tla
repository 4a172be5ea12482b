---------------------------- MODULE PlanTimeLine ----------------------------
(***************************************************************************)
(* The timelines of a plan and those who change them.  Operationplans      *)
(* create, move and delete the flowplans of a buffer and the loadplans of  *)
(* a resource; the user gives a buffer its minimum and maximum, or         *)
(* calendars for these, and a bucketized resource its calendar of          *)
(* capacities.  A default resource has the same code for its maximum as a  *)
(* buffer, and its loadplans change it as flowplans change a buffer: it is *)
(* covered by the owner "buffer".                                          *)
(***************************************************************************)
EXTENDS TimeLine

CONSTANTS
  MaxDate,          \* bound: the dates are 0 (infinitePast) .. MaxDate
  Quantity,         \* the quantities of a flowplan
  Value,            \* the values of a minimum, a maximum or a calendar
  BucketsFirst,     \* is the calendar of a bucketized resource there before
                    \* its loadplans, and never replaced?
  OpenEnd           \* are there loadplans in the last bucket?

VARIABLES
  owner,            \* "buffer" or "resource_buckets"
  tl,               \* its timeline
  plans,            \* the flowplans or loadplans that exist
  bound,            \* min_val and max_val
  calendar,         \* min_cal and max_cal; the size_max_cal of the buckets
  asked,            \* history: the calendar the user asked for last
  stale             \* history: the bounds for which older events were left

vars == <<owner, tl, plans, bound, calendar, asked, stale>>
user == <<owner, bound, calendar, asked, stale>>

(* An unset minimum or maximum is 0.                                       *)
ASSUME PlanAssumption ==
  /\ MaxDate \in Nat
  /\ Quantity \subseteq Int
  /\ Value \subseteq Int /\ 0 \in Value

Date == 0..MaxDate

NoCalendar == <<>>
Calendar == [Date -> Value]

Unset == 0

OfType(t) == {e \in Fixed : Type(e) = t}

(* Those of minimum (3) and maximum (4) the instance has events for.       *)
Bound == {t \in 3..4 : OfType(t) # {}}

Init ==
  /\ owner \in {"buffer", "resource_buckets"}
  /\ tl = Empty
  /\ plans = {}
  /\ bound = [t \in Bound |-> Unset]
  /\ calendar = [t \in 2..4 |-> NoCalendar]
  /\ asked = calendar
  /\ stale = {}

-----------------------------------------------------------------------------
(* Flowplans and loadplans.  Those of a bucketized resource consume.       *)
Allowed(d, q) ==
  owner = "resource_buckets" =>
    /\ q <= 0
    /\ OpenEnd \/ \E e \in SetEvent : e \in ToSet(tl.line) /\ tl.dt[e] > d

Create(e, d, q) ==
  /\ e \notin plans
  /\ Allowed(d, q)
  /\ plans' = plans \union {e}
  /\ tl' = InsertChange(tl, e, d, q)
  /\ UNCHANGED user

Move(e, d, q) ==
  /\ e \in plans
  /\ Allowed(d, q)
  /\ tl' = Update(tl, e, q, d)
  /\ UNCHANGED <<user, plans>>

Delete(e) ==
  /\ e \in plans
  /\ plans' = plans \ {e}
  /\ tl' = Erase(tl, e)
  /\ UNCHANGED user

-----------------------------------------------------------------------------
(* setMinimum (t = 3) and setMaximum (t = 4): the first event of the type  *)
(* is updated, or one is created.                                          *)
InLine(t) == {i \in DOMAIN tl.line : Type(tl.line[i]) = t}
First(t) == tl.line[CHOOSE i \in InLine(t) : \A k \in InLine(t) : i <= k]

SetBound(t, v) ==
  /\ owner = "buffer"
  /\ bound' = [bound EXCEPT ![t] = v]
  /\ IF calendar[t] # NoCalendar THEN UNCHANGED tl
     ELSE IF InLine(t) # {} THEN tl' = [tl EXCEPT !.val[First(t)] = v]
     ELSE \E e \in OfType(t) : tl' = InsertFixed(tl, e, 0, v)
  /\ UNCHANGED <<owner, plans, calendar, asked, stale>>

(* The loop that deletes the previous events: erase() clears the next      *)
(* pointer of the event, from which the iterator is advanced afterwards,   *)
(* so that the first event is also the last one it sees.  Variant: it      *)
(* deletes nothing at all.                                                 *)
ClearedNone(t) == tl

Cleared(t) == IF InLine(t) = {} THEN tl ELSE Erase(tl, First(t))

(* "A new entry is created only when the value changes."                   *)
NewEntries(c) == {d \in Date : c[d] # IF d = 0 THEN 0 ELSE c[d-1]}

(* The entries are inserted in the order of their dates.                   *)
WithEntries(s, new, c) ==
  LET fill[n \in 0..MaxDate+1] ==
        IF n = 0 THEN s
        ELSE IF n - 1 \in DOMAIN new THEN InsertFixed(fill[n-1], new[n-1], n - 1, c[n-1])
        ELSE fill[n-1]
  IN  fill[MaxDate+1]

(* setMinimumCalendar and setMaximumCalendar of a buffer or a resource,    *)
(* and setMaximumCalendar of a bucketized one (t = 2).                     *)
SetCalendar(t, c) ==
  /\ owner = "buffer" <=> t # 2
  /\ t = 2 /\ BucketsFirst => calendar[t] = NoCalendar /\ plans = {}
  /\ c # calendar[t]
  /\ calendar' = [calendar EXCEPT ![t] = c]
  /\ asked' = [asked EXCEPT ![t] = c]
  /\ stale' = IF Cardinality(InLine(t)) > 1 THEN stale \union {t} ELSE stale
  /\ \E new \in Injection(NewEntries(c), OfType(t) \ ToSet(Cleared(t).line)) :
       tl' = WithEntries(Cleared(t), new, c)
  /\ UNCHANGED <<owner, plans, bound>>

(* Without a calendar it is the turn of the fixed value again: the event   *)
(* is deleted, but setMinimum creates no other one, because the pointer to *)
(* the calendar is still there.                                            *)
RemoveCalendar(t) ==
  /\ owner = "buffer" /\ t # 2
  /\ calendar[t] # NoCalendar
  /\ tl' = Cleared(t)
  /\ asked' = [asked EXCEPT ![t] = NoCalendar]
  /\ stale' = stale \union {t}
  /\ UNCHANGED <<owner, plans, bound, calendar>>

Next ==
  \/ \E e \in Change : Delete(e) \/ \E d \in Date, q \in Quantity : Create(e, d, q) \/ Move(e, d, q)
  \/ \E t \in Bound, v \in Value : SetBound(t, v)
  \/ \E t \in Bound \union {2} : RemoveCalendar(t) \/ \E c \in Calendar : SetCalendar(t, c)

Spec == Init /\ [][Next]_vars

-----------------------------------------------------------------------------
TypeOK ==
  /\ owner \in {"buffer", "resource_buckets"}
  /\ tl.line \in Seq(Event) /\ IsInjective(tl.line)
  /\ \A e \in Event : tl.dt[e] \in Date /\ {tl.qty[e], tl.oh[e], tl.cum[e], tl.val[e]} \subseteq Int
  /\ \A t \in 2..4 : tl.chain[t] \in Seq(OfType(t)) /\ IsInjective(tl.chain[t])
  /\ plans \subseteq Change
  /\ bound \in [Bound -> Value]
  /\ {calendar, asked} \subseteq [2..4 -> Calendar \union {NoCalendar}]
  /\ stale \subseteq 2..4

(* The events that are not after e, itself included; those of them since   *)
(* the last one that sets the onhand.                                      *)
Until(e) == {f \in ToSet(tl.line) : f = e \/ Before(tl, f, e)}
LastSet(e) == {s \in Until(e) \intersect SetEvent : \A r \in Until(e) \intersect SetEvent : r = s \/ Before(tl, r, s)}
Since(e) == {f \in Until(e) \intersect Change : \A s \in LastSet(e) : Before(tl, s, f)}

(* The adjustments along the walks of insert(), erase() and update() come  *)
(* to what the flowplans that exist add up to: for every event the onhand  *)
(* is the last value that was set and all that changed it since, and the   *)
(* cumulative quantity all that was produced until then.                   *)
Total(f, S) == MapThenSumSet(LAMBDA e : f[e], S)

OnhandIsSum ==
  /\ ToSet(tl.line) \intersect Change = plans
  /\ \A e \in ToSet(tl.line) :
       /\ tl.oh[e] = Total(tl.val, LastSet(e)) + Total(tl.qty, Since(e))
       /\ tl.cum[e] = Total([f \in Event |-> Produced(tl.qty[f])], Until(e))

(* "This functions returns the minimum valid at a certain date": that of   *)
(* the calendar that was asked for, or the fixed one when it is none.      *)
Follows(t) ==
  \A d \in Date :
    BoundAt(tl, t, d, TRUE) = IF asked[t] = NoCalendar THEN bound[t] ELSE asked[t][d]

(* So it is as long as no older event was left in the timeline, ...        *)
BoundsFollowCalendar == owner = "buffer" => \A t \in Bound \ stale : Follows(t)

(* ... while "Delete previous events" lets expect that none ever is.       *)
PreviousEventsDeleted == owner = "buffer" => \A t \in Bound : Follows(t)

(* "Final debugging check" at the end of insert() and erase().             *)
Consistent == Check(tl)
=============================================================================
