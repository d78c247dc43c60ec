--------------------------- MODULE PreemptedTable ---------------------------
(***************************************************************************)
(* The neighbor table when SIGALRM interrupts the main loop: timer_handler  *)
(* runs between any two statements of updateWeight, checkTrusted and        *)
(* processData, which do not block it.  The statements run in the order of  *)
(* the source (the build commands of the repository do not optimise).       *)
(***************************************************************************)
EXTENDS Packages

CONSTANTS
  Self,      \* `address`: the address of this node
  InRange,   \* the nodes whose frames reach this one
  Reports,   \* the reports a peer may send
  NoReport   \* the frame hands none to processData

ASSUME ReportsAssumption ==
  /\ Self \in Addr /\ InRange \subseteq Peers(Self)
  /\ Reports \subseteq Seq(Entry) /\ NoReport \notin Reports

VARIABLES
  packages,
  pc,       \* where the main loop is
  sender,   \* received_packet[0]
  report,   \* what processData will parse
  entry,    \* the index of the entry being stored
  slot,     \* the loop counter i, then the slot being written
  todo,     \* the assignments to that slot still to be made
  ticked    \* whether the timer fired during this doRead

mainVars == <<pc, sender, report, entry, slot, todo>>
vars == <<packages, pc, sender, report, entry, slot, todo, ticked>>

Idle == /\ pc' = "idle" /\ slot' = 0 /\ entry' = 1 /\ todo' = <<>>
        /\ sender' = NoAddr /\ report' = NoReport

Init ==
  /\ packages = EmptyTable
  /\ pc = "idle" /\ slot = 0 /\ entry = 1 /\ todo = <<>> /\ ticked = FALSE
  /\ sender = NoAddr /\ report = NoReport

\* An assignment to one field of the slot. The cap reads the weight again.
Assign(f, v) == [field |-> f, value |-> v]
CapHigh == Assign("cap", WEIGHT_MAX + 1)    \* slip: one too many
Cap == Assign("cap", WEIGHT_MAX)

Assigned(p, s) ==
  CASE s.field = "cap" -> [p EXCEPT !.weight = Min({@, s.value})]
    [] OTHER -> [p EXCEPT ![s.field] = s.value]

\* doRead has read a frame.
Begin(a, r) ==
  /\ pc = "idle" /\ pc' = "match"
  /\ sender' = a /\ report' = r /\ ticked' = FALSE
  /\ UNCHANGED <<packages, entry, slot, todo>>

\* A loop over the slots: stop at the first that passes, or give up.
Scan(from, Test(_), found, none) ==
  /\ pc = from
  /\ IF Test(packages[slot]) THEN pc' = found /\ UNCHANGED slot
     ELSE IF slot + 1 < MAX_SENDERS THEN slot' = slot + 1 /\ UNCHANGED pc
     ELSE pc' = none /\ slot' = 0
  /\ UNCHANGED <<packages, sender, report, entry, todo, ticked>>

FindDirectSender ==    \* slip: an entry learned from a report is passed over
  Scan("match", LAMBDA p : p.inUse /\ p.id = sender /\ p.owner = NoAddr,
       "load", "free")
FindSender ==
  Scan("match", LAMBDA p : p.inUse /\ p.id = sender, "load", "free")
FindFree == Scan("free", LAMBDA p : ~ p.inUse, "fill", "check")

\* `weight += 10` reads the weight before it writes it.
Load ==
  /\ pc = "load" /\ pc' = "write"
  /\ todo' = << Assign("weight", packages[slot].weight + WEIGHT_STEP),
                Assign("owner", NoAddr), Assign("hops", 1), Cap >>
  /\ UNCHANGED <<packages, sender, report, entry, slot, ticked>>

Fill ==
  /\ pc = "fill" /\ pc' = "write"
  /\ todo' = << Assign("id", sender), Assign("weight", WEIGHT_STEP),
                Assign("inUse", TRUE), Assign("owner", NoAddr), Assign("hops", 1) >>
  /\ UNCHANGED <<packages, sender, report, entry, slot, ticked>>

\* One assignment; after the last updateWeight or processData returns.
Write ==
  /\ pc \in {"write", "learn"}
  /\ packages' = [packages EXCEPT ![slot] = Assigned(@, Head(todo))]
  /\ IF Len(todo) > 1
     THEN todo' = Tail(todo) /\ UNCHANGED <<pc, sender, report, entry, slot>>
     ELSE IF pc = "write"
     THEN pc' = "check" /\ slot' = 0 /\ todo' = <<>>
          /\ UNCHANGED <<sender, report, entry>>
     ELSE Idle
  /\ UNCHANGED ticked

Check ==
  /\ pc = "check"
  /\ IF CheckTrusted(packages, sender) /\ report # NoReport
     THEN pc' = "disown" /\ UNCHANGED <<sender, report, entry, slot, todo>>
     ELSE Idle
  /\ UNCHANGED <<packages, ticked>>

\* The loop only clears inUse of entries, like the timer: it matters to
\* neither of them when the other gets to a slot first.
DisownAll ==
  /\ pc = "disown" /\ pc' = "parse"
  /\ packages' = Disown(packages, sender)
  /\ UNCHANGED <<sender, report, entry, slot, todo, ticked>>

Parse ==
  /\ pc = "parse"
  /\ IF entry > Len(report) THEN Idle
     ELSE /\ IF entry \in Usable(Self, report)
             THEN pc' = "lookup" /\ UNCHANGED entry
             ELSE UNCHANGED pc /\ entry' = entry + 1
          /\ UNCHANGED <<sender, report, slot, todo>>
  /\ UNCHANGED <<packages, ticked>>

FindEntry ==
  Scan("lookup", LAMBDA p : p.inUse /\ p.id = report[entry].id, "update", "room")
FindRoom == Scan("room", LAMBDA p : ~ p.inUse, "store", "full")

Full ==
  /\ pc = "full" /\ pc' = "parse" /\ entry' = entry + 1
  /\ UNCHANGED <<packages, sender, report, slot, todo, ticked>>

Update ==
  /\ pc = "update"
  /\ IF packages[slot].hops > report[entry].hops + 1 \/ ~ packages[slot].trusted
     THEN /\ pc' = "learn"
          /\ todo' = <<Assign("owner", sender), Assign("hops", report[entry].hops + 1)>>
          /\ UNCHANGED <<sender, report, entry, slot>>
     ELSE Idle
  /\ UNCHANGED <<packages, ticked>>

Store ==
  /\ pc = "store" /\ pc' = "learn"
  /\ todo' = << Assign("id", report[entry].id), Assign("inUse", TRUE),
                Assign("trusted", TRUE), Assign("owner", sender),
                Assign("hops", report[entry].hops + 1) >>
  /\ UNCHANGED <<packages, sender, report, entry, slot, ticked>>

\* SIGALRM. doRead takes far less than WEIGHT_LOWER_TIME, so the timer fires
\* at most once while it runs.
Tick ==
  /\ pc # "idle" => ~ ticked
  /\ packages' = LowerWeights(packages)
  /\ ticked' = (pc # "idle")
  /\ UNCHANGED mainVars

MainLoop ==
  \/ FindSender \/ Load \/ FindFree \/ Fill \/ Write \/ Check
  \/ DisownAll \/ Parse \/ FindEntry \/ Update \/ FindRoom \/ Full \/ Store

\* A peer never lists its own address.
Frame == \E a \in InRange, r \in Reports \cup {NoReport} :
           /\ r # NoReport => \A k \in DOMAIN r : r[k].id # a
           /\ Begin(a, r)

Next == Frame \/ MainLoop \/ Tick

Spec == Init /\ [][Next]_vars

\* The main loop gets on with a frame it has begun and the timer is periodic.
FairSpec == Spec /\ WF_vars(MainLoop) /\ WF_vars(Tick)

-----------------------------------------------------------------------------
TypeOK ==
  /\ \A i \in Slots :
       [packages[i] EXCEPT !.weight = Min({@, WEIGHT_MAX})] \in Package
  /\ pc # "write" => packages \in Table
  /\ slot \in Slots /\ entry \in Nat /\ Len(todo) <= 5
  /\ sender \in Addr \cup {NoAddr} /\ report \in Reports \cup {NoReport}

\* An address keeps a single slot, the first that carries its id, wherever the
\* timer interrupts the search for a slot.
LookupAgrees == Unambiguous(packages)

\* A peer that is no longer heard stops being a direct neighbor between two
\* doReads, whatever the interrupted assignments left in its slot. (While a
\* report is stored its slot may still carry the owner 0 of an earlier entry.)
SilentLeaves ==
  \A a \in InRange :
    <>[][~ \E r \in Reports \cup {NoReport} : Begin(a, r)]_vars =>
      <>[](pc = "idle" => \A i \in Direct(packages) : packages[i].id # a)
=============================================================================
