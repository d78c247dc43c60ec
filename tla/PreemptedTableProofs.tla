------------------------ MODULE PreemptedTableProofs ------------------------
(***************************************************************************)
(* That an address keeps one slot wherever the timer interrupts updateWeight *)
(* and processData, for any number of slots, any peers and any reports.     *)
(***************************************************************************)
EXTENDS PreemptedTable, PackagesProofs, SequenceTheorems

\* A slot in the middle of its assignments: the weight may exceed the cap.
Wide ==
  [id : Addr \cup {NoAddr}, weight : Nat, inUse : BOOLEAN, trusted : BOOLEAN,
   owner : Addr \cup {NoAddr}, hops : 0 .. MAX_HOPS]

Step ==
  [field : {"id", "owner"}, value : Addr \cup {NoAddr}]
    \cup [field : {"weight", "cap"}, value : Nat]
    \cup [field : {"hops"}, value : 0 .. MAX_HOPS]
    \cup [field : {"inUse", "trusted"}, value : {TRUE}]

InUpdateWeight == {"match", "load", "free", "fill", "write"}
InLearn == {"lookup", "room", "full", "update", "store", "learn"}

\* The address that the main loop looks up or stores.
Subject == IF pc \in InUpdateWeight THEN sender ELSE report[entry].id

\* No entry in use has the address, and no slot before this one bears it.
Absent ==
  /\ \A k \in Slots : packages[k].inUse => packages[k].id # Subject
  /\ \A k \in 0 .. slot - 1 : packages[k].id # Subject

TypeInv ==
  /\ packages \in [Slots -> Wide]
  /\ slot \in Slots /\ entry \in Nat /\ todo \in Seq(Step)
  /\ report \in Reports \cup {NoReport}
  /\ pc \in {"idle", "check", "disown", "parse"} \cup InUpdateWeight \cup InLearn
  /\ sender \in Addr \cup {NoAddr} /\ (pc # "idle" => sender \in Addr)
  /\ pc \in {"disown", "parse"} \cup InLearn => report # NoReport
  /\ pc \in InLearn => entry \in Usable(Self, report)

\* What a search has passed, and what it has found.
SearchInv ==
  /\ pc \in {"idle", "check", "disown", "parse", "full"} => slot = 0
  /\ pc \in {"match", "lookup"} =>
       \A k \in 0 .. slot - 1 : packages[k].inUse => packages[k].id # Subject
  /\ pc \in {"free", "fill", "room", "store"} => Absent
  /\ pc \in {"fill", "store"} => ~ packages[slot].inUse

\* An id is assigned before its inUse, and until then the address is absent.
TodoInv ==
  /\ todo # <<>> <=> pc \in {"write", "learn"}
  /\ \A k \in DOMAIN todo : todo[k].field = "id" =>
       /\ k = 1 /\ todo[k].value = Subject
       /\ \E j \in DOMAIN todo : todo[j].field = "inUse"
  /\ \A k \in DOMAIN todo : todo[k].field = "inUse" =>
       /\ Absent /\ ~ packages[slot].inUse
       /\ todo[1].field = "id" \/ packages[slot].id = Subject
       /\ \A j \in DOMAIN todo : todo[j].field = "inUse" => j = k

\* The cap comes last, and until then the weight of the slot may be too high.
WeightInv ==
  /\ \A i \in Slots : i # slot \/ pc # "write" => packages[i].weight <= WEIGHT_MAX
  /\ Len(todo) <= 5
  /\ pc = "learn" => \A k \in DOMAIN todo : todo[k].field # "weight"
  /\ pc = "write" =>
       \/ todo[Len(todo)] = Cap
       \/ /\ packages[slot].weight <= WEIGHT_MAX
          /\ \A k \in DOMAIN todo :
               todo[k].field = "weight" => todo[k].value <= WEIGHT_MAX

PInv == TypeInv /\ SearchInv /\ TodoInv /\ Unambiguous(packages)

-----------------------------------------------------------------------------
\* One assignment to a slot.

LEMMA AssignedFields ==
  ASSUME NEW p \in Wide, NEW s \in Step
  PROVE  /\ Assigned(p, s) \in Wide
         /\ Assigned(p, s).id = IF s.field = "id" THEN s.value ELSE p.id
         /\ Assigned(p, s).inUse = IF s.field = "inUse" THEN TRUE ELSE p.inUse
         /\ s.field = "weight" => Assigned(p, s).weight = s.value
         /\ s.field # "weight" => Assigned(p, s).weight <= p.weight
         /\ s.field = "cap" => Assigned(p, s).weight <= s.value
<1>0. p.weight \in Nat /\ p.weight <= p.weight
  BY DEF Wide
<1>1. CASE s.field = "cap"
  <2>1. s.value \in Nat /\ p.weight \in Nat
    BY <1>1 DEF Step, Wide
  <2>2. /\ Min({p.weight, s.value}) \in Nat
        /\ Min({p.weight, s.value}) <= p.weight /\ Min({p.weight, s.value}) <= s.value
    BY <2>1, MinIsLeast
  <2>3. Assigned(p, s) = [p EXCEPT !.weight = Min({p.weight, s.value})]
    BY <1>1 DEF Assigned
  <2> QED BY <1>1, <2>2, <2>3 DEF Wide
<1>2. CASE s.field \in {"id", "owner"}
  <2>1. s.value \in Addr \cup {NoAddr}
    BY <1>2 DEF Step
  <2>2. Assigned(p, s) = [p EXCEPT ![s.field] = s.value]
    BY <1>2 DEF Assigned
  <2>3. CASE s.field = "id"
    BY <1>0, <2>1, <2>2, <2>3 DEF Wide
  <2>4. CASE s.field = "owner"
    BY <1>0, <2>1, <2>2, <2>4 DEF Wide
  <2> QED BY <1>2, <2>3, <2>4
<1>3. CASE s.field \in {"weight", "hops"}
  <2>1. /\ s.field = "weight" => s.value \in Nat
        /\ s.field = "hops" => s.value \in 0 .. MAX_HOPS
    BY <1>3 DEF Step
  <2>2. Assigned(p, s) = [p EXCEPT ![s.field] = s.value]
    BY <1>3 DEF Assigned
  <2>3. CASE s.field = "weight"
    BY <1>0, <2>1, <2>2, <2>3 DEF Wide
  <2>4. CASE s.field = "hops"
    BY <1>0, <2>1, <2>2, <2>4 DEF Wide
  <2> QED BY <1>3, <2>3, <2>4
<1>4. CASE s.field \in {"inUse", "trusted"}
  <2>1. s.value = TRUE
    BY <1>4 DEF Step
  <2>2. Assigned(p, s) = [p EXCEPT ![s.field] = s.value]
    BY <1>4 DEF Assigned
  <2>3. CASE s.field = "inUse"
    BY <1>0, <2>1, <2>2, <2>3 DEF Wide
  <2>4. CASE s.field = "trusted"
    BY <1>0, <2>1, <2>2, <2>4 DEF Wide
  <2> QED BY <1>4, <2>3, <2>4
<1>5. s.field \in {"id", "owner", "weight", "hops", "cap", "inUse", "trusted"}
  BY DEF Step
<1> QED BY <1>1, <1>2, <1>3, <1>4, <1>5

-----------------------------------------------------------------------------
\* The loops that only give slots up: those of timer_handler and the first one
\* of processData.

GivesUp(t, u) ==
  /\ u \in [Slots -> Wide]
  /\ \A i \in Slots : /\ u[i].id = t[i].id /\ (u[i].inUse => t[i].inUse)
                       /\ u[i].weight <= t[i].weight

LEMMA TickGivesUp ==
  ASSUME NEW t \in [Slots -> Wide]
  PROVE  GivesUp(t, LowerWeights(t))
<1>1. ASSUME NEW i \in Slots
      PROVE  /\ LowerWeights(t)[i] \in Wide
             /\ LowerWeights(t)[i].id = t[i].id
             /\ LowerWeights(t)[i].inUse => t[i].inUse
             /\ LowerWeights(t)[i].weight <= t[i].weight
  <2> DEFINE used == t[i].inUse /\ i \notin Expired(t) \cup Orphaned(t)
             trust == (t[i].trusted \/ i \in Promoted(t)) /\ i \notin Demoted(t)
  <2>1. t[i] \in Wide /\ Aged(t, i) \in Nat /\ Aged(t, i) <= t[i].weight
    BY DEF Aged, Wide
  <2>2. LowerWeights(t)[i] = [t[i] EXCEPT !.weight = Aged(t, i), !.inUse = used,
                                          !.trusted = trust]
    BY DEF LowerWeights
  <2>3. used \in BOOLEAN /\ trust \in BOOLEAN /\ (used => t[i].inUse)
    OBVIOUS
  <2> HIDE DEF used, trust
  <2>4. /\ LowerWeights(t)[i] \in Wide /\ LowerWeights(t)[i].id = t[i].id
        /\ LowerWeights(t)[i].inUse = used /\ LowerWeights(t)[i].weight = Aged(t, i)
    BY <2>1, <2>2, <2>3 DEF Wide
  <2> QED BY <2>1, <2>3, <2>4, Zenon
<1>2. LowerWeights(t) \in [Slots -> Wide]
  BY <1>1, Zenon DEF LowerWeights
<1> QED BY <1>1, <1>2 DEF GivesUp

LEMMA DisownGivesUp ==
  ASSUME NEW t \in [Slots -> Wide], NEW o
  PROVE  GivesUp(t, Disown(t, o))
<1>1. ASSUME NEW i \in Slots
      PROVE  /\ Disown(t, o)[i] \in Wide
             /\ Disown(t, o)[i].id = t[i].id
             /\ Disown(t, o)[i].inUse => t[i].inUse
             /\ Disown(t, o)[i].weight <= t[i].weight
  <2> DEFINE used == t[i].inUse /\ t[i].owner # o
  <2>1. t[i] \in Wide /\ used \in BOOLEAN /\ (used => t[i].inUse)
    OBVIOUS
  <2>2. Disown(t, o)[i] = [t[i] EXCEPT !.inUse = used]
    BY DEF Disown
  <2> HIDE DEF used
  <2>3. /\ Disown(t, o)[i] \in Wide /\ Disown(t, o)[i].id = t[i].id
        /\ Disown(t, o)[i].inUse = used /\ Disown(t, o)[i].weight = t[i].weight
    BY <2>1, <2>2 DEF Wide
  <2>4. t[i].weight <= t[i].weight
    BY <2>1 DEF Wide
  <2> QED BY <2>1, <2>3, <2>4, Zenon
<1>2. Disown(t, o) \in [Slots -> Wide]
  BY <1>1, Zenon DEF Disown
<1> QED BY <1>1, <1>2 DEF GivesUp

LEMMA Below == \A i \in Slots : \A k \in 0 .. i - 1 : k \in Slots /\ k < i
BY TableAssumption DEF Slots

LEMMA FewerUnambiguous ==
  ASSUME NEW t, NEW u, GivesUp(t, u), Unambiguous(t)
  PROVE  Unambiguous(u)
BY Below DEF GivesUp, Unambiguous

\* Whatever the main loop knows of the table stays true.
LEMMA TickKeeps ==
  ASSUME PInv, Tick
  PROVE  PInv'
<1>1. GivesUp(packages, packages')
  BY TickGivesUp DEF PInv, TypeInv, Tick
<1>2. pc' = pc /\ sender' = sender /\ report' = report /\ entry' = entry
      /\ slot' = slot /\ todo' = todo /\ Subject' = Subject
  BY DEF Tick, mainVars, Subject
<1>3. TypeInv'
  BY <1>1, <1>2 DEF PInv, TypeInv, GivesUp
<1>4. Absent => Absent'
  <2>1. slot \in Slots
    BY DEF PInv, TypeInv
  <2> QED BY <1>1, <1>2, <2>1, Below DEF Absent, GivesUp
<1>5. SearchInv'
  <2>1. slot \in Slots
    BY DEF PInv, TypeInv
  <2> QED BY <1>1, <1>2, <1>4, <2>1, Below DEF PInv, SearchInv, GivesUp
<1>6. TodoInv'
  <2>1. slot \in Slots
    BY DEF PInv, TypeInv
  <2> QED BY <1>1, <1>2, <1>4, <2>1 DEF PInv, TodoInv, GivesUp
<1>7. Unambiguous(packages')
  BY <1>1, FewerUnambiguous DEF PInv
<1> QED BY <1>3, <1>5, <1>6, <1>7 DEF PInv

-----------------------------------------------------------------------------
\* The searches of the main loop.

LEMMA ZeroSlot == 0 \in Slots /\ 0 .. 0 - 1 = {}
BY TableAssumption DEF Slots

LEMMA NextSlot ==
  ASSUME NEW i \in Slots
  PROVE  /\ i + 1 < MAX_SENDERS =>
              i + 1 \in Slots /\ \A k \in 0 .. (i + 1) - 1 : k \in 0 .. i - 1 \/ k = i
         /\ ~ (i + 1 < MAX_SENDERS) => \A k \in Slots : k \in 0 .. i - 1 \/ k = i
BY TableAssumption DEF Slots

LEMMA BeginKeeps ==
  ASSUME PInv, Frame
  PROVE  PInv'
<1>1. PICK a \in InRange, r \in Reports \cup {NoReport} : Begin(a, r)
  BY DEF Frame
<1>2. a \in Addr
  BY ReportsAssumption DEF Peers
<1>3. /\ pc' = "match" /\ slot' = 0 /\ todo' = todo /\ entry' = entry
      /\ sender' = a /\ report' = r /\ packages' = packages
  BY <1>1 DEF Begin, PInv, SearchInv
<1>4. todo = <<>>
  BY <1>1 DEF Begin, PInv, TodoInv
<1>5. TypeInv'
  BY <1>2, <1>3, ZeroSlot DEF PInv, TypeInv, InUpdateWeight, InLearn
<1>6. SearchInv'
  BY <1>3, ZeroSlot DEF PInv, TypeInv, SearchInv
<1>7. TodoInv'
  BY <1>3, <1>4 DEF TodoInv
<1> QED BY <1>3, <1>5, <1>6, <1>7 DEF PInv

\* Both searches for an entry leave with one that was in use, or having passed
\* every slot.
LEMMA LookupKeeps ==
  ASSUME PInv, FindSender \/ FindEntry
  PROVE  PInv'
<1> DEFINE here == IF pc = "match" THEN "match" ELSE "lookup"
           found == IF pc = "match" THEN "load" ELSE "update"
           none == IF pc = "match" THEN "free" ELSE "room"
           hit == packages[slot].inUse /\ packages[slot].id = Subject
<1>1. /\ pc = here /\ pc \in {"match", "lookup"}
      /\ UNCHANGED <<packages, sender, report, entry, todo>>
      /\ \/ hit /\ pc' = found /\ slot' = slot
         \/ ~ hit /\ slot + 1 < MAX_SENDERS /\ slot' = slot + 1 /\ pc' = pc
         \/ ~ hit /\ ~ (slot + 1 < MAX_SENDERS) /\ pc' = none /\ slot' = 0
  BY DEF FindSender, FindEntry, Scan, Subject, InUpdateWeight
<1>2. todo = <<>> /\ slot \in Slots
  BY <1>1 DEF PInv, TypeInv, TodoInv
<1>3. Subject' = Subject
  BY <1>1 DEF Subject, InUpdateWeight
<1>4. TypeInv'
  BY <1>1, <1>2, NextSlot, ZeroSlot DEF PInv, TypeInv, InUpdateWeight, InLearn
<1>5. SearchInv'
  <2>1. \A k \in 0 .. slot - 1 : packages[k].inUse => packages[k].id # Subject
    BY <1>1 DEF PInv, SearchInv
  <2>2. CASE hit /\ pc' = found /\ slot' = slot
    BY <1>1, <2>2 DEF SearchInv
  <2>3. CASE ~ hit /\ slot + 1 < MAX_SENDERS /\ slot' = slot + 1 /\ pc' = pc
    <3>1. \A k \in 0 .. slot' - 1 : packages[k].inUse => packages[k].id # Subject
      BY <1>2, <2>1, <2>3, NextSlot
    <3> QED BY <1>1, <1>3, <2>3, <3>1 DEF SearchInv
  <2>4. CASE ~ hit /\ ~ (slot + 1 < MAX_SENDERS) /\ pc' = none /\ slot' = 0
    <3>1. \A k \in Slots : packages[k].inUse => packages[k].id # Subject
      BY <1>2, <2>1, <2>4, NextSlot
    <3>2. Absent'
      BY <1>1, <1>3, <2>4, <3>1, ZeroSlot DEF Absent
    <3> QED BY <1>1, <2>4, <3>2 DEF SearchInv
  <2> QED BY <1>1, <2>2, <2>3, <2>4
<1>6. TodoInv'
  BY <1>1, <1>2 DEF TodoInv
<1> QED BY <1>1, <1>4, <1>5, <1>6 DEF PInv

\* Both searches for a free slot only pass entries in use, which are others.
LEMMA RoomKeeps ==
  ASSUME PInv, FindFree \/ FindRoom
  PROVE  PInv'
<1> DEFINE found == IF pc = "free" THEN "fill" ELSE "store"
           none == IF pc = "free" THEN "check" ELSE "full"
           hit == ~ packages[slot].inUse
<1>1. /\ pc \in {"free", "room"}
      /\ UNCHANGED <<packages, sender, report, entry, todo>>
      /\ \/ hit /\ pc' = found /\ slot' = slot
         \/ ~ hit /\ slot + 1 < MAX_SENDERS /\ slot' = slot + 1 /\ pc' = pc
         \/ ~ hit /\ ~ (slot + 1 < MAX_SENDERS) /\ pc' = none /\ slot' = 0
  BY DEF FindFree, FindRoom, Scan
<1>2. todo = <<>> /\ slot \in Slots /\ Absent
  BY <1>1 DEF PInv, TypeInv, TodoInv, SearchInv
<1>3. pc' \in {"free", "fill", "room", "store"} => Subject' = Subject
  BY <1>1 DEF Subject, InUpdateWeight
<1>4. TypeInv'
  BY <1>1, <1>2, NextSlot, ZeroSlot DEF PInv, TypeInv, InUpdateWeight, InLearn
<1>5. SearchInv'
  <2>2. CASE hit /\ pc' = found /\ slot' = slot
    BY <1>1, <1>2, <1>3, <2>2 DEF SearchInv, Absent
  <2>3. CASE ~ hit /\ slot + 1 < MAX_SENDERS /\ slot' = slot + 1 /\ pc' = pc
    <3>1. Absent'
      BY <1>1, <1>2, <1>3, <2>3, NextSlot DEF Absent
    <3> QED BY <1>1, <2>3, <3>1 DEF SearchInv
  <2>4. CASE ~ hit /\ ~ (slot + 1 < MAX_SENDERS) /\ pc' = none /\ slot' = 0
    BY <1>1, <2>4 DEF SearchInv
  <2> QED BY <1>1, <2>2, <2>3, <2>4
<1>6. TodoInv'
  BY <1>1, <1>2 DEF TodoInv
<1> QED BY <1>1, <1>4, <1>5, <1>6 DEF PInv

-----------------------------------------------------------------------------
\* The assignments: what is begun, and one of them.

LEMMA FiveSteps ==
  ASSUME NEW S, NEW v \in S, NEW w \in S, NEW x \in S, NEW y \in S, NEW z \in S
  PROVE  <<v, w, x, y, z>> \in Seq(S)
<1> DEFINE s == <<v, w, x, y, z>>
<1>1. DOMAIN s = 1 .. 5 /\ \A k \in 1 .. 5 : s[k] \in S
  OBVIOUS
<1>2. s \in [1 .. 5 -> S]
  BY <1>1
<1> QED BY <1>2

LEMMA PlanKeeps ==
  ASSUME PInv, Load \/ Fill \/ Store \/ (Update /\ pc' # "idle")
  PROVE  PInv'
<1>1. /\ pc \in {"load", "fill", "store", "update"}
      /\ pc' = IF pc \in {"load", "fill"} THEN "write" ELSE "learn"
      /\ UNCHANGED <<packages, sender, report, entry, slot>>
  BY DEF Load, Fill, Store, Update, Idle
<1>2. Subject' = Subject
  BY <1>1 DEF Subject, InUpdateWeight
<1>3. /\ packages[slot].weight \in Nat /\ WEIGHT_STEP \in Nat /\ WEIGHT_MAX \in Nat
      /\ NoAddr \in Addr \cup {NoAddr} /\ sender \in Addr /\ 1 \in 0 .. MAX_HOPS
  BY <1>1, TableAssumption DEF PInv, TypeInv, Wide
<1>4. pc \in {"store", "update"} =>
        report[entry].id \in Addr /\ report[entry].hops + 1 \in 0 .. MAX_HOPS
  <2> SUFFICES ASSUME pc \in {"store", "update"}
               PROVE  report[entry].id \in Addr /\ report[entry].hops + 1 \in 0 .. MAX_HOPS
    OBVIOUS
  <2>1. /\ report \in Seq(Entry) /\ entry \in DOMAIN report
        /\ report[entry].hops < MAX_HOPS
    BY ReportsAssumption DEF PInv, TypeInv, InLearn, Usable
  <2>2. report[entry] \in Entry
    BY <2>1
  <2> QED BY <2>1, <2>2, TableAssumption DEF Entry
<1>5. CASE pc = "load"
  <2>1. todo' = << Assign("weight", packages[slot].weight + WEIGHT_STEP),
                   Assign("owner", NoAddr), Assign("hops", 1), Cap >>
    BY <1>5 DEF Load, Fill, Store, Update
  <2>2. todo' \in Seq(Step)
    <3>1. /\ Assign("weight", packages[slot].weight + WEIGHT_STEP) \in Step
          /\ Assign("owner", NoAddr) \in Step /\ Assign("hops", 1) \in Step /\ Cap \in Step
      BY <1>3 DEF Step, Assign, Cap
    <3> QED BY <2>1, <3>1
  <2>3. todo' # <<>> /\ \A k \in DOMAIN todo' : todo'[k].field \notin {"id", "inUse"}
    BY <2>1 DEF Assign, Cap
  <2>4. TypeInv'
    BY <1>1, <1>5, <2>2 DEF PInv, TypeInv, InUpdateWeight, InLearn
  <2>5. SearchInv'
    BY <1>1, <1>5 DEF SearchInv
  <2>6. TodoInv'
    BY <1>1, <1>5, <2>3 DEF TodoInv
  <2> QED BY <1>1, <2>4, <2>5, <2>6 DEF PInv
<1>6. CASE pc = "update"
  <2>1. todo' = <<Assign("owner", sender), Assign("hops", report[entry].hops + 1)>>
    BY <1>6 DEF Load, Fill, Store, Update, Idle
  <2>2. todo' \in Seq(Step)
    <3>1. Assign("owner", sender) \in Step /\ Assign("hops", report[entry].hops + 1) \in Step
      BY <1>3, <1>4, <1>6 DEF Step, Assign
    <3> QED BY <2>1, <3>1
  <2>3. todo' # <<>> /\ \A k \in DOMAIN todo' : todo'[k].field \notin {"id", "inUse"}
    BY <2>1 DEF Assign
  <2>4. TypeInv'
    BY <1>1, <1>6, <2>2 DEF PInv, TypeInv, InUpdateWeight, InLearn
  <2>5. SearchInv'
    BY <1>1, <1>6 DEF SearchInv
  <2>6. TodoInv'
    BY <1>1, <1>6, <2>3 DEF TodoInv
  <2> QED BY <1>1, <2>4, <2>5, <2>6 DEF PInv
<1>7. CASE pc = "fill"
  <2>1. todo' = << Assign("id", sender), Assign("weight", WEIGHT_STEP),
                   Assign("inUse", TRUE), Assign("owner", NoAddr), Assign("hops", 1) >>
    BY <1>7 DEF Load, Fill, Store, Update
  <2>2. todo' \in Seq(Step)
    <3>1. /\ Assign("id", sender) \in Step /\ Assign("weight", WEIGHT_STEP) \in Step
          /\ Assign("inUse", TRUE) \in Step /\ Assign("owner", NoAddr) \in Step
          /\ Assign("hops", 1) \in Step
      BY <1>3 DEF Step, Assign
    <3> QED BY <2>1, <3>1, FiveSteps
  <2>3. /\ DOMAIN todo' = 1 .. 5 /\ todo' # <<>>
        /\ todo'[1].field = "id" /\ todo'[1].value = Subject /\ todo'[3].field = "inUse"
        /\ \A k \in 1 .. 5 : /\ todo'[k].field = "id" => k = 1
                             /\ todo'[k].field = "inUse" => k = 3
    BY <1>7, <2>1 DEF Assign, Subject, InUpdateWeight
  <2>4. TypeInv'
    BY <1>1, <1>7, <2>2 DEF PInv, TypeInv, InUpdateWeight, InLearn
  <2>5. SearchInv'
    BY <1>1, <1>7 DEF SearchInv
  <2>6. Absent' /\ ~ packages'[slot'].inUse
    BY <1>1, <1>2, <1>7 DEF PInv, SearchInv, Absent
  <2>7. TodoInv'
    BY <1>1, <1>2, <1>7, <2>3, <2>6 DEF TodoInv
  <2> QED BY <1>1, <2>4, <2>5, <2>7 DEF PInv
<1>8. CASE pc = "store"
  <2>1. todo' = << Assign("id", report[entry].id), Assign("inUse", TRUE),
                   Assign("trusted", TRUE), Assign("owner", sender),
                   Assign("hops", report[entry].hops + 1) >>
    BY <1>8 DEF Load, Fill, Store, Update
  <2>2. todo' \in Seq(Step)
    <3>1. /\ Assign("id", report[entry].id) \in Step /\ Assign("inUse", TRUE) \in Step
          /\ Assign("trusted", TRUE) \in Step /\ Assign("owner", sender) \in Step
          /\ Assign("hops", report[entry].hops + 1) \in Step
      BY <1>3, <1>4, <1>8 DEF Step, Assign
    <3> QED BY <2>1, <3>1, FiveSteps
  <2>3. /\ DOMAIN todo' = 1 .. 5 /\ todo' # <<>>
        /\ todo'[1].field = "id" /\ todo'[1].value = Subject /\ todo'[2].field = "inUse"
        /\ \A k \in 1 .. 5 : /\ todo'[k].field = "id" => k = 1
                             /\ todo'[k].field = "inUse" => k = 2
    BY <1>8, <2>1 DEF Assign, Subject, InUpdateWeight
  <2>4. TypeInv'
    BY <1>1, <1>8, <2>2 DEF PInv, TypeInv, InUpdateWeight, InLearn
  <2>5. SearchInv'
    BY <1>1, <1>8 DEF SearchInv
  <2>6. Absent' /\ ~ packages'[slot'].inUse
    BY <1>1, <1>2, <1>8 DEF PInv, SearchInv, Absent
  <2>7. TodoInv'
    BY <1>1, <1>2, <1>8, <2>3, <2>6 DEF TodoInv
  <2> QED BY <1>1, <2>4, <2>5, <2>7 DEF PInv
<1> QED BY <1>1, <1>5, <1>6, <1>7, <1>8

\* The next assignment: an id that nobody has yet, the inUse of a slot whose id
\* nobody else has, or something that no search looks at.
LEMMA WriteKeeps ==
  ASSUME PInv, Write
  PROVE  PInv'
<1> DEFINE s == Head(todo)
           left == IF Len(todo) > 1 THEN Tail(todo) ELSE <<>>
<1>1. /\ pc \in {"write", "learn"} /\ todo \in Seq(Step) /\ slot \in Slots
      /\ packages \in [Slots -> Wide]
  BY DEF Write, PInv, TypeInv
<1>2. /\ packages' = [packages EXCEPT ![slot] = Assigned(@, s)]
      /\ todo' = left
      /\ \/ Len(todo) > 1 /\ UNCHANGED <<pc, sender, report, entry, slot>>
         \/ /\ ~ (Len(todo) > 1) /\ pc' = "check" /\ slot' = 0
            /\ UNCHANGED <<sender, report, entry>>
         \/ ~ (Len(todo) > 1) /\ Idle
  BY DEF Write, Idle
<1>3. /\ todo # <<>> /\ 1 \in DOMAIN todo /\ s = todo[1] /\ s \in Step
      /\ Len(todo) \in Nat \ {0} /\ DOMAIN todo = 1 .. Len(todo)
  BY <1>1 DEF PInv, TodoInv
<1> HIDE DEF s
<1>4. /\ packages' \in [Slots -> Wide]
      /\ \A i \in Slots :
           /\ packages'[i].id =
                IF i = slot /\ s.field = "id" THEN s.value ELSE packages[i].id
           /\ packages'[i].inUse =
                IF i = slot /\ s.field = "inUse" THEN TRUE ELSE packages[i].inUse
  <2>1. /\ Assigned(packages[slot], s) \in Wide
        /\ Assigned(packages[slot], s).id = IF s.field = "id" THEN s.value ELSE packages[slot].id
        /\ Assigned(packages[slot], s).inUse =
             IF s.field = "inUse" THEN TRUE ELSE packages[slot].inUse
    <3>1. packages[slot] \in Wide
      BY <1>1
    <3> QED BY <1>3, <3>1, AssignedFields, Zenon
  <2> QED BY <1>1, <1>2, <2>1
<1>5. s.field = "id" => /\ s.value = Subject /\ Absent /\ ~ packages[slot].inUse
                        /\ Len(todo) > 1
  <2>1. s.field = "id" =>
          s.value = Subject /\ \E j \in DOMAIN todo : todo[j].field = "inUse" /\ j # 1
    BY <1>3 DEF PInv, TodoInv
  <2> QED BY <1>3, <2>1 DEF PInv, TodoInv
<1>6. s.field = "inUse" =>
        Absent /\ ~ packages[slot].inUse /\ packages[slot].id = Subject
  BY <1>3 DEF PInv, TodoInv
<1>7. Unambiguous(packages')
  <2> SUFFICES ASSUME NEW i \in Slots, packages'[i].inUse, NEW k \in 0 .. i - 1
               PROVE  packages'[k].id # packages'[i].id
    BY DEF Unambiguous
  <2>1. k \in Slots /\ k # i
    BY Below
  <2>2. CASE s.field = "id"
    BY <1>4, <1>5, <2>1, <2>2 DEF Absent, PInv, Unambiguous
  <2>3. CASE s.field = "inUse"
    <3>1. packages'[i].id = packages[i].id /\ packages'[k].id = packages[k].id
      BY <1>4, <2>1, <2>3
    <3>2. CASE i = slot
      BY <1>6, <2>3, <3>1, <3>2 DEF Absent
    <3>3. CASE i # slot /\ k = slot
      BY <1>4, <1>6, <2>3, <3>1, <3>3 DEF Absent
    <3>4. CASE i # slot /\ k # slot
      BY <1>4, <3>1, <3>4 DEF PInv, Unambiguous
    <3> QED BY <3>2, <3>3, <3>4
  <2>4. CASE s.field \notin {"id", "inUse"}
    BY <1>4, <2>1, <2>4 DEF PInv, Unambiguous
  <2> QED BY <2>2, <2>3, <2>4
<1>8. CASE ~ (Len(todo) > 1)
  <2>1. /\ todo' = <<>> /\ slot' = 0 /\ pc' \in {"check", "idle"} /\ entry' \in Nat
        /\ report' \in Reports \cup {NoReport} /\ (pc' # "idle" => sender' \in Addr)
    BY <1>1, <1>2, <1>8 DEF Idle, PInv, TypeInv
  <2>2. TypeInv'
    BY <1>4, <2>1, ZeroSlot DEF TypeInv, InUpdateWeight, InLearn
  <2>3. SearchInv'
    BY <2>1 DEF SearchInv
  <2>4. TodoInv'
    BY <2>1 DEF TodoInv
  <2> QED BY <1>7, <2>2, <2>3, <2>4 DEF PInv
<1>9. CASE Len(todo) > 1
  <2>1. todo' = Tail(todo) /\ UNCHANGED <<pc, sender, report, entry, slot>>
    BY <1>2, <1>9 DEF Idle
  <2>2. /\ todo' \in Seq(Step) /\ todo' # <<>>
        /\ DOMAIN todo' = 1 .. Len(todo) - 1
        /\ \A k \in DOMAIN todo' : k + 1 \in DOMAIN todo /\ k + 1 # 1 /\ todo'[k] = todo[k + 1]
    <3>1. /\ Tail(todo) \in Seq(Step) /\ Len(Tail(todo)) = Len(todo) - 1
          /\ \A k \in 1 .. Len(Tail(todo)) : Tail(todo)[k] = todo[k + 1]
      BY <1>1, <1>3, HeadTailProperties
    <3>2. DOMAIN Tail(todo) = 1 .. Len(todo) - 1
      BY <3>1
    <3>3. Tail(todo) # <<>>
      BY <1>3, <1>9, <3>1
    <3>4. \A k \in 1 .. Len(todo) - 1 : k + 1 \in 1 .. Len(todo) /\ k + 1 # 1
      BY <1>3
    <3> QED BY <1>3, <2>1, <3>1, <3>2, <3>3, <3>4
  <2>3. Subject' = Subject
    BY <2>1 DEF Subject
  <2>4. TypeInv'
    BY <1>4, <2>1, <2>2 DEF PInv, TypeInv
  <2>5. SearchInv'
    BY <1>1, <2>1 DEF SearchInv
  <2>6. \A k \in DOMAIN todo' : todo'[k].field # "id"
    BY <2>2 DEF PInv, TodoInv
  <2>7. ASSUME NEW k \in DOMAIN todo', todo'[k].field = "inUse"
        PROVE  /\ Absent' /\ ~ packages'[slot'].inUse /\ packages'[slot'].id = Subject'
               /\ \A j \in DOMAIN todo' : todo'[j].field = "inUse" => j = k
    <3>1. /\ Absent /\ ~ packages[slot].inUse
          /\ todo[1].field = "id" \/ packages[slot].id = Subject
          /\ \A j \in DOMAIN todo : todo[j].field = "inUse" => j = k + 1
      BY <2>2, <2>7 DEF PInv, TodoInv
    <3>2. s.field # "inUse"
      BY <1>3, <2>2, <3>1
    <3>3. ~ packages'[slot'].inUse /\ packages'[slot'].id = Subject'
      BY <1>1, <1>3, <1>4, <1>5, <2>1, <2>3, <3>1, <3>2
    <3>4. Absent'
      <4>1. \A j \in Slots : packages'[j].inUse => packages'[j].id # Subject'
        BY <1>1, <1>4, <2>1, <2>3, <3>1, <3>2 DEF Absent
      <4>2. \A j \in 0 .. slot - 1 : j \in Slots /\ j # slot
        BY <1>1, Below
      <4>3. \A j \in 0 .. slot' - 1 : packages'[j].id # Subject'
        BY <1>4, <2>1, <2>3, <3>1, <4>2 DEF Absent
      <4> QED BY <4>1, <4>3 DEF Absent
    <3>5. \A j \in DOMAIN todo' : todo'[j].field = "inUse" => j = k
      BY <1>3, <2>2, <3>1
    <3> QED BY <3>3, <3>4, <3>5
  <2>8. TodoInv'
    BY <1>1, <2>1, <2>2, <2>6, <2>7 DEF TodoInv
  <2> QED BY <1>7, <2>4, <2>5, <2>8 DEF PInv
<1> QED BY <1>3, <1>8, <1>9

-----------------------------------------------------------------------------
\* What lies between the searches.
LEMMA RestKeeps ==
  ASSUME PInv, Check \/ DisownAll \/ Parse \/ Full \/ (Update /\ pc' = "idle")
  PROVE  PInv'
<1>1. /\ pc \in {"check", "disown", "parse", "full", "update"}
      /\ todo' = <<>> /\ pc' \in {"idle", "disown", "parse", "lookup"}
      /\ pc' # "idle" => UNCHANGED <<sender, report, slot>>
      /\ pc' = "idle" => slot' = 0 /\ sender' = NoAddr
      /\ pc = "update" => pc' = "idle"
      /\ report' \in {report, NoReport} /\ entry' \in {entry, entry + 1, 1}
  BY DEF Check, DisownAll, Parse, Full, Update, Idle, PInv, TodoInv
<1>2. GivesUp(packages, packages')
  <2>1. CASE DisownAll
    BY <2>1, DisownGivesUp DEF DisownAll, PInv, TypeInv
  <2>2. CASE packages' = packages
    BY <2>2 DEF GivesUp, PInv, TypeInv, Wide
  <2> QED BY <2>1, <2>2 DEF Check, Parse, Full, Update
<1>3. pc' \in {"disown", "parse", "lookup"} => report # NoReport
  BY <1>1 DEF Check, DisownAll, Parse, Full, Update, Idle, PInv, TypeInv, InLearn
<1>4. pc' = "lookup" => entry' = entry /\ entry \in Usable(Self, report)
  BY DEF Check, DisownAll, Parse, Full, Update, Idle
<1>5. TypeInv'
  <2>1. slot' \in Slots /\ entry' \in Nat
    BY <1>1, ZeroSlot DEF PInv, TypeInv
  <2> QED BY <1>1, <1>2, <1>3, <1>4, <2>1
          DEF GivesUp, PInv, TypeInv, InUpdateWeight, InLearn
<1>6. SearchInv'
  <2>1. slot' = 0
    BY <1>1 DEF PInv, SearchInv
  <2> QED BY <1>1, <2>1, ZeroSlot DEF SearchInv
<1>7. TodoInv'
  BY <1>1 DEF TodoInv
<1>8. Unambiguous(packages')
  BY <1>2, FewerUnambiguous DEF PInv
<1> QED BY <1>5, <1>6, <1>7, <1>8 DEF PInv

-----------------------------------------------------------------------------
LEMMA PInit == Init => PInv
<1> SUFFICES ASSUME Init PROVE PInv
  OBVIOUS
<1>1. EmptyTable \in [Slots -> Wide] /\ Unambiguous(EmptyTable)
  <2>1. Sound(Self, EmptyTable)
    BY EmptySound
  <2>2. Unambiguous(EmptyTable)
    BY <2>1 DEF Sound
  <2> QED BY <2>2, TableAssumption DEF EmptyTable, Wide
<1>2. TypeInv
  BY <1>1, ZeroSlot DEF Init, TypeInv, InUpdateWeight, InLearn
<1>3. SearchInv /\ TodoInv
  BY DEF Init, SearchInv, TodoInv
<1> QED BY <1>1, <1>2, <1>3 DEF Init, PInv

LEMMA PStep == PInv /\ [Next]_vars => PInv'
<1> SUFFICES ASSUME PInv, [Next]_vars PROVE PInv'
  OBVIOUS
<1>1. CASE Frame
  BY <1>1, BeginKeeps
<1>2. CASE Tick
  BY <1>2, TickKeeps
<1>3. CASE FindSender \/ FindEntry
  BY <1>3, LookupKeeps
<1>4. CASE FindFree \/ FindRoom
  BY <1>4, RoomKeeps
<1>5. CASE Load \/ Fill \/ Store \/ (Update /\ pc' # "idle")
  BY <1>5, PlanKeeps
<1>6. CASE Write
  BY <1>6, WriteKeeps
<1>7. CASE Check \/ DisownAll \/ Parse \/ Full \/ (Update /\ pc' = "idle")
  BY <1>7, RestKeeps
<1>8. CASE UNCHANGED vars
  BY <1>8 DEF vars, mainVars, PInv, TypeInv, SearchInv, TodoInv, Absent, Subject
<1> QED BY <1>1, <1>2, <1>3, <1>4, <1>5, <1>6, <1>7, <1>8 DEF Next, MainLoop

LEMMA PInvariant == Spec => []PInv
BY PInit, PStep, PTL DEF Spec

-----------------------------------------------------------------------------
\* Weights: only the one that is being written may exceed the cap.

LEMMA SettledWeights ==
  ASSUME PInv, WeightInv, GivesUp(packages, packages'), pc # "write",
         pc' \notin {"write", "learn"}, todo' = <<>>
  PROVE  WeightInv'
<1>1. \A i \in Slots : packages[i].weight \in Nat /\ packages'[i].weight \in Nat
  BY DEF PInv, TypeInv, GivesUp, Wide
<1>2. \A i \in Slots : packages'[i].weight <= WEIGHT_MAX
  BY <1>1, TableAssumption DEF WeightInv, GivesUp
<1> QED BY <1>2 DEF WeightInv

LEMMA TickWeights ==
  ASSUME PInv, WeightInv, Tick
  PROVE  WeightInv'
<1>1. GivesUp(packages, packages') /\ UNCHANGED <<pc, slot, todo>>
  BY TickGivesUp DEF PInv, TypeInv, Tick, mainVars
<1>2. \A i \in Slots : packages[i].weight \in Nat /\ packages'[i].weight \in Nat
  BY <1>1 DEF PInv, TypeInv, GivesUp, Wide
<1>3. \A i \in Slots : packages[i].weight <= WEIGHT_MAX => packages'[i].weight <= WEIGHT_MAX
  BY <1>1, <1>2, TableAssumption DEF GivesUp
<1>4. slot \in Slots
  BY DEF PInv, TypeInv
<1> QED BY <1>1, <1>3, <1>4 DEF WeightInv

LEMMA PlanWeights ==
  ASSUME PInv, WeightInv, Load \/ Fill \/ Store \/ (Update /\ pc' # "idle")
  PROVE  WeightInv'
<1>1. /\ pc \in {"load", "fill", "store", "update"} /\ slot \in Slots
      /\ pc' = IF pc \in {"load", "fill"} THEN "write" ELSE "learn"
      /\ UNCHANGED <<packages, slot>>
  BY DEF Load, Fill, Store, Update, Idle, PInv, TypeInv
<1>2. \A i \in Slots : packages'[i].weight <= WEIGHT_MAX
  BY <1>1 DEF WeightInv
<1>3. CASE pc = "load"
  <2>1. todo' = << Assign("weight", packages[slot].weight + WEIGHT_STEP),
                   Assign("owner", NoAddr), Assign("hops", 1), Cap >>
    BY <1>3 DEF Load, Fill, Store, Update
  <2>2. Len(todo') = 4 /\ todo'[4] = Cap
    BY <2>1
  <2> QED BY <1>1, <1>2, <1>3, <2>2 DEF WeightInv
<1>4. CASE pc = "fill"
  <2>1. todo' = << Assign("id", sender), Assign("weight", WEIGHT_STEP),
                   Assign("inUse", TRUE), Assign("owner", NoAddr), Assign("hops", 1) >>
    BY <1>4 DEF Load, Fill, Store, Update
  <2>2. Len(todo') = 5 /\ DOMAIN todo' = 1 .. 5
        /\ \A k \in 1 .. 5 : todo'[k].field = "weight" => todo'[k].value = WEIGHT_STEP
    BY <2>1 DEF Assign
  <2> QED BY <1>1, <1>2, <1>4, <2>2, TableAssumption DEF WeightInv
<1>5. CASE pc = "update"
  <2>1. todo' = <<Assign("owner", sender), Assign("hops", report[entry].hops + 1)>>
    BY <1>5 DEF Load, Fill, Store, Update, Idle
  <2>2. Len(todo') = 2 /\ \A k \in DOMAIN todo' : todo'[k].field # "weight"
    BY <2>1 DEF Assign
  <2> QED BY <1>1, <1>2, <1>5, <2>2 DEF WeightInv
<1>6. CASE pc = "store"
  <2>1. todo' = << Assign("id", report[entry].id), Assign("inUse", TRUE),
                   Assign("trusted", TRUE), Assign("owner", sender),
                   Assign("hops", report[entry].hops + 1) >>
    BY <1>6 DEF Load, Fill, Store, Update
  <2>2. Len(todo') = 5 /\ \A k \in DOMAIN todo' : todo'[k].field # "weight"
    BY <2>1 DEF Assign
  <2> QED BY <1>1, <1>2, <1>6, <2>2 DEF WeightInv
<1> QED BY <1>1, <1>3, <1>4, <1>5, <1>6

\* The last assignment of updateWeight leaves a weight below the cap.
LEMMA WriteWeights ==
  ASSUME PInv, WeightInv, Write
  PROVE  WeightInv'
<1> DEFINE s == Head(todo)
<1>1. /\ pc \in {"write", "learn"} /\ todo \in Seq(Step) /\ slot \in Slots
      /\ packages \in [Slots -> Wide] /\ todo # <<>>
      /\ packages' = [packages EXCEPT ![slot] = Assigned(@, s)]
  BY DEF Write, PInv, TypeInv, TodoInv
<1>2. /\ s = todo[1] /\ s \in Step /\ Len(todo) \in Nat \ {0}
      /\ DOMAIN todo = 1 .. Len(todo) /\ 1 \in DOMAIN todo
  BY <1>1
<1> HIDE DEF s
<1>3. /\ Assigned(packages[slot], s) \in Wide
      /\ s.field = "weight" => Assigned(packages[slot], s).weight = s.value
      /\ s.field # "weight" => Assigned(packages[slot], s).weight <= packages[slot].weight
      /\ s.field = "cap" => Assigned(packages[slot], s).weight <= s.value
  BY <1>1, <1>2, AssignedFields
<1>4. /\ packages[slot].weight \in Nat /\ Assigned(packages[slot], s).weight \in Nat
      /\ packages'[slot] = Assigned(packages[slot], s)
      /\ \A i \in Slots : i # slot => packages'[i] = packages[i]
  BY <1>1, <1>3 DEF Wide
<1>5. CASE ~ (Len(todo) > 1)
  <2>1. Len(todo) = 1 /\ todo' = <<>> /\ pc' \in {"check", "idle"}
    BY <1>2, <1>5 DEF Write, Idle
  <2>2. packages'[slot].weight <= WEIGHT_MAX
    <3>1. CASE todo[Len(todo)] = Cap
      <4>1. s.field = "cap" /\ s.value = WEIGHT_MAX
        BY <1>2, <2>1, <3>1 DEF Cap, Assign
      <4> QED BY <1>3, <1>4, <4>1
    <3>2. CASE s.field = "weight" /\ todo[Len(todo)] # Cap
      BY <1>1, <1>2, <1>3, <1>4, <3>2 DEF WeightInv
    <3>3. CASE s.field # "weight" /\ todo[Len(todo)] # Cap
      <4>1. packages[slot].weight <= WEIGHT_MAX
        BY <1>1, <3>3 DEF WeightInv
      <4> QED BY <1>3, <1>4, <3>3, <4>1, TableAssumption
    <3> QED BY <3>1, <3>2, <3>3
  <2>3. \A i \in Slots : packages'[i].weight <= WEIGHT_MAX
    BY <1>4, <2>2 DEF WeightInv
  <2> QED BY <2>1, <2>3 DEF WeightInv
<1>6. CASE Len(todo) > 1
  <2>1. todo' = Tail(todo) /\ UNCHANGED <<pc, slot>>
    BY <1>6 DEF Write
  <2>2. /\ Tail(todo) \in Seq(Step) /\ Len(Tail(todo)) = Len(todo) - 1
        /\ \A k \in 1 .. Len(Tail(todo)) : Tail(todo)[k] = todo[k + 1]
    BY <1>1, HeadTailProperties
  <2>3. /\ Len(todo') = Len(todo) - 1 /\ DOMAIN todo' = 1 .. Len(todo) - 1
        /\ \A k \in DOMAIN todo' : k + 1 \in DOMAIN todo /\ todo'[k] = todo[k + 1]
    <3>1. DOMAIN Tail(todo) = 1 .. Len(todo) - 1
      BY <2>2
    <3>2. \A k \in 1 .. Len(todo) - 1 : k + 1 \in 1 .. Len(todo)
      BY <1>2
    <3> QED BY <1>2, <2>1, <2>2, <3>1, <3>2
  <2>4. todo'[Len(todo')] = todo[Len(todo)]
    <3>1. Len(todo) - 1 \in DOMAIN todo' /\ (Len(todo) - 1) + 1 = Len(todo)
      BY <1>2, <1>6, <2>3
    <3> QED BY <2>3, <3>1
  <2>5. Len(todo') <= 5
    BY <1>2, <2>3 DEF WeightInv
  <2>6. pc = "learn" => /\ \A k \in DOMAIN todo' : todo'[k].field # "weight"
                        /\ packages'[slot].weight <= WEIGHT_MAX
    <3> SUFFICES ASSUME pc = "learn"
                 PROVE  /\ \A k \in DOMAIN todo' : todo'[k].field # "weight"
                        /\ packages'[slot].weight <= WEIGHT_MAX
      OBVIOUS
    <3>1. \A k \in DOMAIN todo : todo[k].field # "weight"
      BY DEF WeightInv
    <3>2. s.field # "weight" /\ packages[slot].weight <= WEIGHT_MAX
      BY <1>1, <1>2, <3>1 DEF WeightInv
    <3> QED BY <1>3, <1>4, <2>3, <3>1, <3>2, TableAssumption
  <2>7. ASSUME pc = "write", todo[Len(todo)] # Cap
        PROVE  /\ packages'[slot].weight <= WEIGHT_MAX
               /\ \A k \in DOMAIN todo' : todo'[k].field = "weight" => todo'[k].value <= WEIGHT_MAX
    <3>1. /\ packages[slot].weight <= WEIGHT_MAX
          /\ \A k \in DOMAIN todo : todo[k].field = "weight" => todo[k].value <= WEIGHT_MAX
      BY <2>7 DEF WeightInv
    <3>2. packages'[slot].weight <= WEIGHT_MAX
      BY <1>2, <1>3, <1>4, <3>1, TableAssumption
    <3> QED BY <2>3, <3>1, <3>2
  <2>8. \A i \in Slots : i # slot' \/ pc' # "write" => packages'[i].weight <= WEIGHT_MAX
    BY <1>1, <1>4, <2>1, <2>6 DEF WeightInv
  <2> QED BY <1>1, <2>1, <2>4, <2>5, <2>6, <2>7, <2>8 DEF WeightInv
<1> QED BY <1>5, <1>6

LEMMA WeightInit == Init => WeightInv
BY TableAssumption DEF Init, EmptyTable, WeightInv

LEMMA WeightStep == PInv /\ WeightInv /\ [Next]_vars => WeightInv'
<1> SUFFICES ASSUME PInv, WeightInv, [Next]_vars PROVE WeightInv'
  OBVIOUS
<1>1. packages' = packages => GivesUp(packages, packages')
  BY DEF GivesUp, PInv, TypeInv, Wide
<1>2. pc \notin {"write", "learn"} => todo = <<>>
  BY DEF PInv, TodoInv
<1>3. CASE Frame
  BY <1>1, <1>2, <1>3, SettledWeights DEF Frame, Begin
<1>4. CASE Tick
  BY <1>4, TickWeights
<1>5. CASE FindSender \/ FindEntry \/ FindFree \/ FindRoom
  BY <1>1, <1>2, <1>5, SettledWeights DEF FindSender, FindEntry, FindFree, FindRoom, Scan
<1>6. CASE Load \/ Fill \/ Store \/ (Update /\ pc' # "idle")
  BY <1>6, PlanWeights
<1>7. CASE Write
  BY <1>7, WriteWeights
<1>8. CASE DisownAll
  <2>1. GivesUp(packages, packages')
    BY <1>8, DisownGivesUp DEF DisownAll, PInv, TypeInv
  <2> QED BY <1>2, <1>8, <2>1, SettledWeights DEF DisownAll
<1>9. CASE Check \/ Parse \/ Full \/ (Update /\ pc' = "idle")
  BY <1>1, <1>2, <1>9, SettledWeights DEF Check, Parse, Full, Update, Idle
<1>10. CASE UNCHANGED vars
  BY <1>10 DEF vars, mainVars, WeightInv
<1> QED BY <1>3, <1>4, <1>5, <1>6, <1>7, <1>8, <1>9, <1>10 DEF Next, MainLoop

LEMMA TypeFollows == PInv /\ WeightInv => TypeOK
<1> SUFFICES ASSUME PInv, WeightInv PROVE TypeOK
  OBVIOUS
<1>1. ASSUME NEW i \in Slots
      PROVE  [packages[i] EXCEPT !.weight = Min({packages[i].weight, WEIGHT_MAX})] \in Package
  <2>1. packages[i] \in Wide /\ packages[i].weight \in Nat /\ WEIGHT_MAX \in Nat
    BY TableAssumption DEF PInv, TypeInv, Wide
  <2>2. Min({packages[i].weight, WEIGHT_MAX}) \in 0 .. WEIGHT_MAX
    BY <2>1, MinIsLeast
  <2> QED BY <2>1, <2>2 DEF Wide, Package
<1>2. ASSUME pc # "write"  PROVE packages \in Table
  <2>1. ASSUME NEW i \in Slots  PROVE packages[i] \in Package
    <3>1. packages[i] \in Wide /\ packages[i].weight <= WEIGHT_MAX
      BY <1>2 DEF PInv, TypeInv, WeightInv
    <3> QED BY <3>1, TableAssumption DEF Wide, Package
  <2> QED BY <2>1 DEF PInv, TypeInv, Table
<1>3. /\ slot \in Slots /\ entry \in Nat /\ sender \in Addr \cup {NoAddr}
      /\ report \in Reports \cup {NoReport} /\ Len(todo) <= 5
  BY DEF PInv, TypeInv, WeightInv
<1> QED BY <1>1, <1>2, <1>3 DEF TypeOK

-----------------------------------------------------------------------------
\* Slots keep their ranges; a weight exceeds the cap only between the assignments
\* of updateWeight, although a tick may get in between (weight += 10, the cap).
THEOREM InterruptedTypeCorrect == Spec => []TypeOK
<1>1. PInv /\ WeightInv /\ [Next]_vars => WeightInv'
  BY WeightStep
<1> QED BY PInvariant, WeightInit, <1>1, TypeFollows, PTL DEF Spec

\* Wherever the timer interrupts the search for a slot or the assignments to it,
\* an address keeps a single slot, the one every lookup finds (updateWeight,
\* checkTrusted, processData, timer_handler).
THEOREM InterruptedLookupSafe == Spec => []LookupAgrees
<1>1. PInv => LookupAgrees
  BY DEF PInv, LookupAgrees
<1> QED BY PInvariant, <1>1, PTL
=============================================================================
