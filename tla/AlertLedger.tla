----------------------------- MODULE AlertLedger -----------------------------
(***************************************************************************)
(* What the price watch promises about its alerts, without the scraper:    *)
(* a ledger of detected drops.  One drop is open at a time; while it is    *)
(* open each user may be told of it once; when it is closed, by the end of *)
(* its fan-out or by a crash, nobody is told of it any more.  A drop is    *)
(* marked as notified only if somebody acknowledged it or there was nobody *)
(* to tell.  Nothing is promised about drops whose scrape is killed.       *)
(***************************************************************************)
CONSTANTS User, DiffId,
          None      \* not a DiffId

VARIABLES
  rows,      \* drops recorded
  open,      \* the drop being told, or None
  told,      \* [DiffId -> users it was sent to, with or without success]
  acked,     \* [DiffId -> users whose send was acknowledged]
  unwanted,  \* drops with nobody to tell
  marked     \* drops marked as notified

vars == <<rows, open, told, acked, unwanted, marked>>

Init ==
  /\ rows = {}
  /\ open = None
  /\ told = [d \in DiffId |-> {}]
  /\ acked = [d \in DiffId |-> {}]
  /\ unwanted = {}
  /\ marked = {}

Record(d) ==
  /\ open = None
  /\ d \notin rows
  /\ rows' = rows \cup {d}
  /\ open' = d
  /\ UNCHANGED <<told, acked, unwanted, marked>>

Tell(u, ok) ==
  /\ open # None
  /\ u \notin told[open]
  /\ told' = [told EXCEPT ![open] = @ \cup {u}]
  /\ acked' = [acked EXCEPT ![open] = IF ok THEN @ \cup {u} ELSE @]
  /\ open' \in {open, None}
  /\ UNCHANGED <<rows, unwanted, marked>>

FindNobody ==
  /\ open # None
  /\ told[open] = {}
  /\ unwanted' = unwanted \cup {open}
  /\ open' = None
  /\ UNCHANGED <<rows, told, acked, marked>>

Abandon ==
  /\ open # None
  /\ open' = None
  /\ UNCHANGED <<rows, told, acked, unwanted, marked>>

Mark(ds) ==
  /\ open = None
  /\ ds \subseteq {d \in rows : acked[d] # {} \/ d \in unwanted}
  /\ marked' = marked \cup ds
  /\ UNCHANGED <<rows, open, told, acked, unwanted>>

Next ==
  \/ \E d \in DiffId : Record(d)
  \/ \E u \in User, ok \in BOOLEAN : Tell(u, ok)
  \/ FindNobody
  \/ Abandon
  \/ \E ds \in SUBSET DiffId : Mark(ds)

Spec == Init /\ [][Next]_vars
=============================================================================
