-------------------------------- MODULE TblRx --------------------------------
(***************************************************************************)
(* Change notification in the browser (rx-tbl) over the database of one    *)
(* tab: SQLite's update hook collects what statements touch, a timer tells *)
(* the tab's listeners and posts it on a BroadcastChannel, and another tab *)
(* reads the database through a connection of its own.                     *)
(***************************************************************************)
EXTENDS AsyncDb

CONSTANTS
  Point,    \* the listeners of onPoint; the others are of onRange or onAny
  PointRows \* the writes that touch the rows of the point listeners

ASSUME PointAssumption == Point \subseteq Listener /\ PointRows \subseteq Write

VARIABLES
  pending,    \* #pendingNotification
  subscribed, \* the listeners that are registered
  due,        \* listeners that were called and will read
  channel,    \* #bc: how many posted messages the other tab has not had
  there       \* what the other tab has read, and whether it will read again

rxVars == <<pending, subscribed, due, channel, there>>
vars == <<dbVars, rxVars>>

Watched(l) == IF l \in Point THEN PointRows ELSE Write

Init ==
  /\ DbInit
  /\ pending = {} /\ subscribed = Listener /\ due = {}
  /\ channel = 0 /\ there = [got |-> {}, due |-> FALSE]

-----------------------------------------------------------------------------
Touched == (content' \cup dirty') \ (content \cup dirty)

\* A mutant of Hook: a pending notification keeps the last rows only.
HookKeepsLast ==
  pending' = IF subscribed = {} \/ Touched = {} THEN pending ELSE Touched

\* #onUpdate and #preNotify: the hook runs while the statement does.
Hook ==
  pending' = IF subscribed = {} THEN pending ELSE pending \cup Touched

Db ==
  /\ DbCall \/ DbRun \/ DbTx
  /\ Hook
  /\ UNCHANGED <<subscribed, due, channel, there>>

\* The timer: __internalNotifyListeners, then postMessage.  A listener that
\* throws keeps both the listeners after it and the channel from being told.
Told == {l \in subscribed : Watched(l) \cap pending # {}}

\* A mutant of Notify: nothing is posted for the other tabs.
NotifyHereOnly ==
  /\ pending # {}
  /\ pending' = {}
  /\ due' = due \cup Told
  /\ UNCHANGED <<dbVars, subscribed, channel, there>>

Notify ==
  /\ pending # {}
  /\ pending' = {}
  /\ \/ /\ due' = due \cup Told
        /\ channel' = IF subscribed = {} THEN channel ELSE channel + 1
        /\ excused' = excused \cup (IF pending \subseteq content THEN {} ELSE {"early"})
        /\ UNCHANGED faults
     \/ /\ faults < MaxFaults /\ faults' = faults + 1
        /\ \E called \in SUBSET Told : called # {} /\ due' = due \cup called
        /\ excused' = excused \cup {"threw"}
        /\ UNCHANGED channel
  /\ UNCHANGED <<mutexes, status, sqlite, closed, must, got, failed, subscribed, there>>

\* A listener reads the database through its handle.
Listen(l) ==
  /\ l \in due
  /\ CallRead(l)
  /\ due' = due \ {l}
  /\ UNCHANGED <<pending, subscribed, channel, there>>

\* dispose: the listeners, the hook and the channel go; the timer stays.
Dispose ==
  /\ subscribed # {}
  /\ subscribed' = {}
  /\ UNCHANGED <<dbVars, pending, due, channel, there>>

\* The other tab: onmessage, then its listeners read what is committed.
OtherHears ==
  /\ channel > 0 /\ channel' = channel - 1
  /\ there' = [there EXCEPT !.due = TRUE]
  /\ UNCHANGED <<dbVars, pending, subscribed, due>>

OtherReads ==
  /\ there.due
  /\ there' = [got |-> content, due |-> FALSE]
  /\ UNCHANGED <<dbVars, pending, subscribed, due, channel>>

Next ==
  \/ Db \/ Notify \/ Dispose \/ OtherHears \/ OtherReads
  \/ \E l \in Listener : Listen(l)

\* The mutex serves its queue; whoever calls db.tx lets its function end.
FairSpec ==
  /\ Init /\ [][Next]_vars
  /\ WF_vars(Db /\ DbRun) /\ SF_vars(Db /\ EndTx)

-----------------------------------------------------------------------------
TypeOK ==
  /\ \A i \in DOMAIN queue :
       queue[i] \in [kind : {"read", "write", "tx", "finalize", "crsql_finalize", "close"},
                    for : SUBSET Caller \ {{}}, cached : BOOLEAN]
  /\ inner.kind \in {"none", "read", "write"} /\ inner.for \subseteq Caller \cup TxWrite
  /\ Cardinality(Cached) + (IF inner.cached THEN 1 ELSE 0) <= 1
  /\ status \in [Caller -> {"idle", "waiting", "done", "failed"}]
  /\ content \cup failed \cup pending \cup there.got \subseteq Write
  /\ closed \in {"no", "closing", "closed"}
  /\ dirty \subseteq Write /\ (~open => dirty = {})
  /\ must \in [Listener -> SUBSET Write] /\ got \in [Listener -> SUBSET Write]
  /\ faults \in 0 .. MaxFaults /\ excused \subseteq Excuse
  /\ subscribed \subseteq Listener /\ due \subseteq Listener
  /\ channel \in Nat

\* What a registered listener last read of its rows is what is committed, or
\* something is under way that makes it read again: a notification before the
\* commit does no harm in its own tab, where the read queues behind it.
ViewIsFresh ==
  \/ Excused({"crossed", "release", "threw"})
  \/ \A l \in subscribed :
       got[l] \cap Watched(l) # content \cap Watched(l) =>
         pending \cap Watched(l) # {} \/ l \in due \/ status[l] = "waiting"

\* The same for the other tab, whose reads queue behind nothing: it is told of
\* everything, unless it was told before the commit or a listener threw.
OtherTabIsFresh ==
  \/ Excused({"early", "threw"}) \/ subscribed = {}
  \/ there.got # content => pending # {} \/ channel > 0 \/ there.due

=============================================================================
