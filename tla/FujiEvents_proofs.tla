-------------------------- MODULE FujiEvents_proofs --------------------------
(***************************************************************************)
(* Proofs about FujiEvents, for any number of changes and of pictures: the *)
(* variables stay in their types however the list of events is overwritten,*)
(* and a poll of a quiet camera misses no change.                          *)
(***************************************************************************)
EXTENDS FujiEvents, FiniteSetTheorems, TLAPS

Entries == [code : Props \cup {"foreign"}, value : Nat]

(* The types, by what the steps change together.  The list has room for the  *)
(* event that is being handled when it is replaced.                          *)
CamTyped ==
    /\ transport \in Transports /\ offers \in BOOLEAN
    /\ cam = [p \in Props |-> cam[p]] /\ \A p \in Props : cam[p] \in Values(p)
    /\ untold \in SUBSET Props /\ changes \in 0 .. MaxChanges
FieldsTyped ==
    fuji = [p \in Fields |-> fuji[p]] /\ \A p \in Fields : fuji[p] \in Nat
ListTyped == buffer \in Seq(Entries) /\ Len(buffer) <= MaxEvents
HandlesTyped == a \in Seq(1 .. MaxObjects) /\ y \in 1 .. Len(a) + 1
QueueTyped == queue \in SUBSET (1 .. MaxObjects + 1)
PlaceTyped ==
    /\ pc \in {"idle", "apply", "queue", "handles", "objects"}
    /\ i \in 1 .. MaxEvents + 1
    /\ pc \in {"queue", "handles", "objects"} => i <= MaxEvents
    /\ rc \in {"OK", "PTP_IO_ERR", "PTP_CHECK_CODE"} /\ refused \in BOOLEAN

TypeInv ==
    CamTyped /\ FieldsTyped /\ ListTyped /\ HandlesTyped /\ QueueTyped /\ PlaceTyped

\* While the list of a quiet camera is read, every change that has been told is
\* stored or still ahead, and what is ahead is the newest value unless a newer
\* one waits to be told.
Ahead(p) == \E n \in i .. Len(buffer) : buffer[n].code = p

QuietInv == Quiet =>
    /\ pc \in {"idle", "apply"}
    /\ pc = "idle" => \A p \in Fields \ untold : fuji[p] = cam[p]
    /\ pc = "apply" =>
        /\ \A p \in Fields \ untold : fuji[p] = cam[p] \/ Ahead(p)
        /\ \A n \in i .. Len(buffer) :
              buffer[n].code \in Props /\ buffer[n].value \in Values(buffer[n].code)
                /\ (buffer[n].code \in untold \/ buffer[n].value = cam[buffer[n].code])

IInv == TypeInv /\ QuietInv

-----------------------------------------------------------------------------
LEMMA FunctionIsSeq ==
    ASSUME NEW S, NEW k \in Nat, NEW f \in [1 .. k -> S]
    PROVE  f \in Seq(S) /\ Len(f) = k
OBVIOUS

LEMMA ValuesAreNat == \A p \in Props : Values(p) \subseteq Nat /\ 0 \in Values("num_objects")
BY EventsAssumption DEF Values

\* The order in which the changes are told: each of them once.
LEMMA Orders ==
    ASSUME NEW S \in SUBSET Props, NEW order \in SetToSeqs(S)
    PROVE  /\ order \in Seq(S) /\ Len(order) <= MaxEvents
           /\ \A p \in S : \E n \in 1 .. Len(order) : order[n] = p
<1>1. IsFiniteSet(Props) /\ Cardinality(Props) <= 4
  <2>1. IsFiniteSet({}) /\ Cardinality({}) = 0
    BY FS_EmptySet
  <2> DEFINE A == {} \cup {"camera_state"}
             B == A \cup {"num_objects"}
             C == B \cup {"selected_imgs_mode"}
             D == C \cup {"FreeSDRAMImages"}
  <2>2. IsFiniteSet(A) /\ Cardinality(A) \in {0, 1}
    BY <2>1, FS_AddElement
  <2>3. IsFiniteSet(B) /\ Cardinality(B) \in 0 .. 2
    <3> HIDE DEF A
    <3> QED  BY <2>2, FS_AddElement
  <2>4. IsFiniteSet(C) /\ Cardinality(C) \in 0 .. 3
    <3> HIDE DEF B
    <3> QED  BY <2>3, FS_AddElement
  <2>5. IsFiniteSet(D) /\ Cardinality(D) \in 0 .. 4
    <3> HIDE DEF C
    <3> QED  BY <2>4, FS_AddElement
  <2>6. D = Props
    BY DEF Props, Fields
  <2> QED  BY <2>5, <2>6
<1> DEFINE n == Cardinality(S)
<1>2. IsFiniteSet(S) /\ n \in Nat /\ n <= MaxEvents
  BY <1>1, FS_Subset, FS_CardinalityType, EventsAssumption
<1>3. order \in [1 .. n -> S] /\ \A a1, a2 \in 1 .. n : a1 # a2 => order[a1] # order[a2]
  BY DEF SetToSeqs
<1>4. Cardinality(1 .. n) = n
  BY <1>2, FS_Interval
<1>5. order \in Injection(1 .. n, S)
  BY <1>3 DEF Injection, IsInjective
<1>6. order \in Surjection(1 .. n, S)
  BY <1>2, <1>4, <1>5, FS_Injection
<1>7. order \in Seq(S) /\ Len(order) = n
  BY <1>2, <1>3
<1> QED  BY <1>2, <1>6, <1>7 DEF Surjection

\* An answer that is received over the list.
LEMMA OverwrittenType ==
    ASSUME NEW b \in Overwritten
    PROVE  b \in Seq(Entries) /\ Len(b) <= MaxEvents
<1>1. PICK length \in 0 .. MaxEvents : b = [n \in 1 .. length |-> Foreign]
  BY DEF Overwritten
<1>2. b \in [1 .. length -> Entries]
  BY <1>1 DEF Foreign, Entries
<1> QED  BY <1>2, FunctionIsSeq, EventsAssumption

\* What is read of an entry: the event, or anything.
LEMMA ReadType ==
    ASSUME NEW f \in Entries, NEW e \in Read(f)
    PROVE  /\ e.value \in Nat
           /\ f.code \in Props => e = f
BY EventsAssumption DEF Read, Foreign, Entries, Props, Fields

-----------------------------------------------------------------------------
LEMMA TypeIsType == TypeInv => TypeOK
<1> SUFFICES ASSUME TypeInv PROVE TypeOK
  OBVIOUS
<1>1. /\ transport \in Transports /\ offers \in BOOLEAN
      /\ \A p \in Props : cam[p] \in Values(p)
      /\ untold \subseteq Props /\ changes \in 0 .. MaxChanges
  BY DEF TypeInv, CamTyped
<1>2. /\ \A n \in DOMAIN buffer : buffer[n] \in [code : Props \cup {"foreign"}, value : Nat]
      /\ \A p \in Fields : fuji[p] \in Nat
  <2>1. \A n \in DOMAIN buffer : buffer[n] \in Entries
    BY DEF TypeInv, ListTyped
  <2> QED  BY <2>1 DEF TypeInv, FieldsTyped, Entries
<1>3. a \in Seq(1 .. MaxObjects) /\ y \in 1 .. Len(a) + 1 /\ queue \subseteq 1 .. MaxObjects + 1
  BY DEF TypeInv, HandlesTyped, QueueTyped
<1>4. /\ i \in 1 .. MaxEvents + 1 /\ refused \in BOOLEAN
      /\ pc \in {"idle", "apply", "queue", "handles", "objects"}
      /\ rc \in {"OK", "PTP_IO_ERR", "PTP_CHECK_CODE"}
  BY DEF TypeInv, PlaceTyped
<1> QED  BY <1>1, <1>2, <1>3, <1>4 DEF TypeOK

\* Everything but a change leaves the camera alone, and what can be told of it.
LEMMA PollFrame ==
    ASSUME Poll \/ PollRejected \/ PollFails \/ InPoll
    PROVE  UNCHANGED <<setting, cam, changes>> /\ (untold' = untold \/ untold' = {})
<1>1. UNCHANGED <<setting, cam, changes>> /\ (untold' = untold \/ untold' = {})
  BY DEF Poll, PollRejected, PollFails, InPoll, PollEnds, Apply, QueueOne, GetHandles,
      QueueObjects, ObjectsEnd, QueueFile, FileQueued, InfoRejected, CommandFails
<1> QED  BY <1>1

LEMMA CamStep ==
    ASSUME CamTyped, [Next]_vars
    PROVE  CamTyped'
<1>1. ASSUME NEW p \in Props, Change(p) PROVE CamTyped'
  <2>1. PICK v \in Values(p) : cam' = [cam EXCEPT ![p] = v]
    BY <1>1 DEF Change
  <2>2. changes' \in 0 .. MaxChanges /\ untold' \in SUBSET Props
    BY <1>1, EventsAssumption DEF Change, CamTyped
  <2>3. cam' = [q \in Props |-> cam'[q]] /\ \A q \in Props : cam'[q] \in Values(q)
    BY <2>1 DEF CamTyped
  <2>4. UNCHANGED <<transport, offers>>
    BY <1>1 DEF Change, setting
  <2> QED  BY <2>2, <2>3, <2>4 DEF CamTyped, Values
<1>2. CASE Poll \/ PollRejected \/ PollFails \/ InPoll
  BY <1>2, PollFrame DEF CamTyped, Values, setting
<1>3. CASE UNCHANGED vars
  BY <1>3 DEF vars, CamTyped, Values, setting
<1> QED  BY <1>1, <1>2, <1>3 DEF Next

\* A command that is sent on account of an event.
LEMMA CommandTyped ==
    ASSUME ListTyped, QueueTyped, PlaceTyped, NEW o \in 1 .. MaxObjects + 1, QueueFile(o)
    PROVE  ListTyped' /\ QueueTyped' /\ refused' \in BOOLEAN /\ UNCHANGED <<fuji, a, rc>>
<1>1. buffer' \in Overwritten \cup {buffer} /\ queue' \in {queue, queue \cup {o}}
      /\ refused' \in {refused, TRUE} /\ UNCHANGED <<fuji, a, rc>>
  BY DEF QueueFile, FileQueued, InfoRejected
<1>2. QueueTyped'
  BY <1>1 DEF QueueTyped
<1>3. ListTyped'
  BY <1>1, OverwrittenType DEF ListTyped
<1> QED  BY <1>1, <1>2, <1>3 DEF PlaceTyped

LEMMA ReturnTyped ==
    ASSUME NEW c \in {"OK", "PTP_IO_ERR", "PTP_CHECK_CODE"}, Returns(c), refused' \in BOOLEAN
    PROVE  ListTyped' /\ HandlesTyped' /\ PlaceTyped'
<1>1. buffer' = <<>> /\ a' = <<>> /\ y' = 1 /\ i' = 1 /\ pc' = "idle" /\ rc' = c
  BY DEF Returns
<1>2. ListTyped' /\ HandlesTyped'
  BY <1>1, EventsAssumption DEF ListTyped, HandlesTyped
<1>3. PlaceTyped'
  BY <1>1, EventsAssumption DEF PlaceTyped
<1> QED  BY <1>2, <1>3

LEMMA TypeStep ==
    ASSUME TypeInv, [Next]_vars
    PROVE  TypeInv'
<1>c. CamTyped'
  BY CamStep DEF TypeInv
<1>0. CASE UNCHANGED vars
  BY <1>0 DEF vars, setting, TypeInv, CamTyped, FieldsTyped, ListTyped, HandlesTyped,
      QueueTyped, PlaceTyped, Values
<1>1. ASSUME NEW p \in Props, Change(p) PROVE TypeInv'
  BY <1>1, <1>c DEF Change, pollVars, setting, TypeInv, FieldsTyped, ListTyped, HandlesTyped,
      QueueTyped, PlaceTyped
<1> SUFFICES ASSUME Poll \/ PollRejected \/ PollFails \/ InPoll, UNCHANGED setting
             PROVE  TypeInv'
  BY <1>0, <1>1, PollFrame DEF Next
<1>f. UNCHANGED fuji => FieldsTyped'
  BY DEF TypeInv, FieldsTyped
<1>l. UNCHANGED buffer => ListTyped'
  BY DEF TypeInv, ListTyped
<1>h. UNCHANGED <<a, y>> => HandlesTyped'
  BY DEF TypeInv, HandlesTyped
<1>q. UNCHANGED queue => QueueTyped'
  BY DEF TypeInv, QueueTyped
<1>2. CASE Poll
  <2>1. PICK order \in SetToSeqs(untold) :
            buffer' = [n \in DOMAIN order |-> Event(order[n])]
    BY <1>2 DEF Poll
  <2>2. order \in Seq(untold) /\ Len(order) <= MaxEvents
    BY <2>1, Orders DEF TypeInv, CamTyped
  <2>3. \A p \in untold : Event(p) \in Entries
    BY ValuesAreNat DEF Event, Entries, TypeInv, CamTyped
  <2>4. ListTyped'
    <3>1. Len(order) \in Nat /\ DOMAIN order = 1 .. Len(order)
      BY <2>2
    <3>2. buffer' \in [1 .. Len(order) -> Entries]
      BY <2>1, <2>2, <2>3, <3>1
    <3> QED  BY <2>2, <3>1, <3>2, FunctionIsSeq DEF ListTyped
  <2>5. PlaceTyped' /\ UNCHANGED <<fuji, a, y, queue>>
    BY <1>2, EventsAssumption DEF Poll, TypeInv, PlaceTyped
  <2> QED  BY <1>c, <1>f, <1>h, <1>q, <2>4, <2>5 DEF TypeInv
<1>3. CASE PollRejected \/ PollFails
  <2>1. PlaceTyped' /\ UNCHANGED <<fuji, buffer, a, y, queue>>
    BY <1>3 DEF PollRejected, PollFails, TypeInv, PlaceTyped
  <2> QED  BY <1>c, <1>f, <1>l, <1>h, <1>q, <2>1 DEF TypeInv
<1>4. CASE PollEnds
  <2>1. Returns("OK") /\ UNCHANGED <<fuji, refused, queue>>
    BY <1>4 DEF PollEnds
  <2>2. refused' \in BOOLEAN
    BY <2>1 DEF TypeInv, PlaceTyped
  <2> QED  BY <1>c, <1>f, <1>q, <2>1, <2>2, ReturnTyped DEF TypeInv
<1>5. CASE Apply
  <2>1. i \in 1 .. Len(buffer) /\ buffer[i] \in Entries /\ i <= MaxEvents
    BY <1>5, EventsAssumption DEF Apply, Ended, TypeInv, ListTyped, PlaceTyped
  <2>2. PICK e \in Read(buffer[i]) :
           /\ fuji' = IF e.code \in Fields THEN [fuji EXCEPT ![e.code] = e.value] ELSE fuji
           /\ pc' \in {"queue", "handles", pc}
           /\ i' = IF pc' \in {"queue", "handles"} THEN i ELSE i + 1
           /\ pc = "apply"
    BY <1>5 DEF Apply
  <2>3. e.value \in Nat
    BY <2>1, ReadType
  <2>4. FieldsTyped'
    <3>1. /\ fuji' = [p \in Fields |-> fuji'[p]]
          /\ \A p \in Fields : fuji'[p] \in Nat
      BY <2>2, <2>3 DEF TypeInv, FieldsTyped
    <3> QED  BY <3>1 DEF FieldsTyped
  <2>5. UNCHANGED <<buffer, a, y, queue, rc, refused>>
    BY <1>5 DEF Apply
  <2>6. PlaceTyped'
    BY <2>1, <2>2, <2>5, EventsAssumption DEF TypeInv, PlaceTyped
  <2> QED  BY <1>c, <1>l, <1>h, <1>q, <2>4, <2>5, <2>6 DEF TypeInv
<1>b. ASSUME NEW c \in {"PTP_IO_ERR", "PTP_CHECK_CODE"}, CommandFails(c) PROVE TypeInv'
  <2>1. Returns(c) /\ refused' = TRUE /\ UNCHANGED <<fuji, queue>>
    BY <1>b DEF CommandFails
  <2> QED  BY <1>c, <1>f, <1>q, <2>1, ReturnTyped DEF TypeInv
<1>6. CASE QueueOne
  <2>1. CASE QueueFile(1) /\ pc' = "apply" /\ i' = i + 1 /\ UNCHANGED y
    <3>1. 1 \in 1 .. MaxObjects + 1
      BY EventsAssumption
    <3>2. ListTyped' /\ QueueTyped' /\ refused' \in BOOLEAN /\ UNCHANGED <<fuji, a, rc>>
      BY <2>1, <3>1, CommandTyped DEF TypeInv
    <3>3. PlaceTyped'
      BY <1>6, <2>1, <3>2, EventsAssumption DEF QueueOne, TypeInv, PlaceTyped
    <3> QED  BY <1>c, <1>f, <1>h, <2>1, <3>2, <3>3 DEF TypeInv
  <2> QED  BY <1>6, <1>b, <2>1 DEF QueueOne
<1>7. CASE GetHandles
  <2>1. CASE /\ a' = [n \in 1 .. cam["FreeSDRAMImages"] |-> n]
             /\ buffer' \in Overwritten /\ y' = 1 /\ pc' = "objects"
             /\ UNCHANGED <<fuji, i, rc, refused, queue>>
    <3>1. cam["FreeSDRAMImages"] \in 0 .. MaxObjects
      BY DEF TypeInv, CamTyped, Values, Props, Fields
    <3>2. a' \in [1 .. cam["FreeSDRAMImages"] -> 1 .. MaxObjects]
      BY <2>1, <3>1, EventsAssumption
    <3>3. HandlesTyped'
      BY <2>1, <3>1, <3>2, FunctionIsSeq, EventsAssumption DEF HandlesTyped
    <3>4. ListTyped'
      BY <2>1, OverwrittenType DEF ListTyped
    <3>5. PlaceTyped'
      BY <1>7, <2>1 DEF GetHandles, TypeInv, PlaceTyped
    <3> QED  BY <1>c, <1>f, <1>q, <2>1, <3>3, <3>4, <3>5 DEF TypeInv
  <2> QED  BY <1>7, <1>b, <2>1 DEF GetHandles
<1>8. CASE QueueObjects
  <2>1. CASE (\E o \in Picked : QueueFile(o)) /\ y' = y + 1 /\ UNCHANGED <<pc, i>>
    <3>1. PICK o \in Picked : QueueFile(o)
      BY <2>1
    <3>2. o \in 1 .. MaxObjects + 1
      BY EventsAssumption DEF Picked, TypeInv, HandlesTyped, PlaceTyped
    <3>3. ListTyped' /\ QueueTyped' /\ refused' \in BOOLEAN /\ UNCHANGED <<fuji, a, rc>>
      BY <3>1, <3>2, CommandTyped DEF TypeInv
    <3>4. PlaceTyped'
      BY <2>1, <3>3 DEF TypeInv, PlaceTyped
    <3>5. HandlesTyped'
      BY <1>8, <2>1, <3>3 DEF QueueObjects, TypeInv, HandlesTyped
    <3> QED  BY <1>c, <1>f, <3>3, <3>4, <3>5 DEF TypeInv
  <2> QED  BY <1>8, <1>b, <2>1 DEF QueueObjects
<1>9. CASE ObjectsEnd
  <2>1. PlaceTyped' /\ UNCHANGED <<fuji, buffer, queue>>
    BY <1>9, EventsAssumption DEF ObjectsEnd, TypeInv, PlaceTyped
  <2>2. HandlesTyped'
    BY <1>9 DEF ObjectsEnd, HandlesTyped
  <2> QED  BY <1>c, <1>f, <1>l, <1>q, <2>1, <2>2 DEF TypeInv
<1> QED  BY <1>2, <1>3, <1>4, <1>5, <1>6, <1>7, <1>8, <1>9 DEF InPoll

-----------------------------------------------------------------------------
LEMMA QuietStep ==
    ASSUME TypeInv, QuietInv, [Next]_vars
    PROVE  QuietInv'
<1> SUFFICES ASSUME Quiet, Quiet' PROVE QuietInv'
  <2>1. UNCHANGED setting
    BY PollFrame DEF Next, vars, Change
  <2> QED  BY <2>1 DEF QuietInv, Quiet, setting
<1>t. /\ untold \in SUBSET Props /\ i \in Nat /\ buffer \in Seq(Entries) /\ i >= 1
      /\ cam = [p \in Props |-> cam[p]] /\ fuji = [p \in Fields |-> fuji[p]]
      /\ \A p \in Props : cam[p] \in Values(p)
  BY DEF TypeInv, CamTyped, FieldsTyped, ListTyped, PlaceTyped
<1>v. \A p \in Props : Values(p)' = Values(p)
  BY DEF Quiet, Values
<1> USE DEF QuietInv, Ahead
<1>0. CASE UNCHANGED vars
  BY <1>0, <1>v DEF vars
<1>1. ASSUME NEW p \in Props, Change(p) PROVE QuietInv'
  <2>1. PICK v \in Values(p) : cam' = [cam EXCEPT ![p] = v]
    BY <1>1 DEF Change
  <2>2. untold' = untold \cup {p} /\ UNCHANGED <<fuji, buffer, i, pc>>
    BY <1>1 DEF Change, pollVars
  <2>3. \A q \in Props : q # p => cam'[q] = cam[q]
    BY <1>t, <2>1
  <2>4. \A q \in Fields \ untold' : q \in Fields \ untold /\ cam'[q] = cam[q] /\ fuji'[q] = fuji[q]
    BY <2>2, <2>3 DEF Props
  <2>5. ASSUME pc = "apply", NEW n \in i .. Len(buffer)
        PROVE  /\ buffer[n].code \in Props /\ buffer[n].value \in Values(buffer[n].code)
               /\ buffer[n].code \in untold' \/ buffer[n].value = cam'[buffer[n].code]
    BY <2>2, <2>3, <2>5
  <2> QED  BY <1>v, <2>2, <2>4, <2>5
<1>2. CASE Poll
  <2>1. PICK order \in SetToSeqs(untold) :
            buffer' = [n \in DOMAIN order |-> Event(order[n])]
    BY <1>2 DEF Poll
  <2>2. /\ order \in Seq(untold)
        /\ \A p \in untold : \E n \in 1 .. Len(order) : order[n] = p
    BY <1>t, <2>1, Orders
  <2>3. /\ Len(buffer') = Len(order)
        /\ \A n \in 1 .. Len(order) : buffer'[n] = Event(order[n]) /\ order[n] \in untold
    <3>1. Len(order) \in Nat /\ DOMAIN order = 1 .. Len(order)
      BY <2>2
    <3>2. buffer' \in [1 .. Len(order) -> {Event(p) : p \in Props}]
      BY <1>t, <2>1, <2>2, <3>1
    <3>3. Len(buffer') = Len(order)
      BY <3>1, <3>2, FunctionIsSeq
    <3> QED  BY <2>1, <2>2, <3>1, <3>3
  <2>4. i' = 1 /\ pc' = "apply" /\ untold' = {} /\ pc = "idle" /\ UNCHANGED <<cam, fuji>>
    BY <1>2 DEF Poll
  <2>5. \A p \in Fields : fuji'[p] = cam'[p] \/ Ahead(p)'
    <3> SUFFICES ASSUME NEW p \in Fields, fuji[p] # cam[p]
                 PROVE  \E n \in 1 .. Len(order) : buffer'[n].code = p
      BY <2>3, <2>4
    <3>1. PICK n \in 1 .. Len(order) : order[n] = p
      BY <2>2, <2>4 DEF Props
    <3>2. buffer'[n] = Event(p)
      BY <2>3, <3>1
    <3> QED  BY <3>2 DEF Event
  <2>6. \A n \in i' .. Len(buffer') : /\ buffer'[n].code \in Props
                                      /\ buffer'[n].value \in Values(buffer'[n].code)
                                      /\ buffer'[n].value = cam'[buffer'[n].code]
    <3> SUFFICES ASSUME NEW n \in 1 .. Len(order)
                 PROVE  /\ buffer'[n].code \in Props
                        /\ buffer'[n].value \in Values(buffer'[n].code)
                        /\ buffer'[n].value = cam'[buffer'[n].code]
      BY <2>3, <2>4
    <3>1. buffer'[n] = Event(order[n]) /\ order[n] \in Props
      BY <1>t, <2>3
    <3> QED  BY <1>t, <2>4, <3>1 DEF Event
  <2> QED  BY <1>v, <2>4, <2>5, <2>6
<1>3. CASE PollRejected \/ PollFails
  BY <1>3 DEF PollRejected, PollFails
<1>4. CASE PollEnds
  <2>1. /\ pc = "apply" /\ i > Len(buffer) /\ pc' = "idle" /\ UNCHANGED <<untold, fuji, cam>>
    BY <1>4 DEF PollEnds, Returns, Ended
  <2>2. Len(buffer) \in Nat
    BY <1>t
  <2>3. \A p : ~Ahead(p)
    BY <1>t, <2>1, <2>2
  <2> QED  BY <2>1, <2>3
<1>5. CASE Apply
  <2> DEFINE e == buffer[i]
  <2>1. i \in 1 .. Len(buffer) /\ e \in Entries /\ e.code \in Props
        /\ e.value \in Values(e.code) /\ (e.code \in untold \/ e.value = cam[e.code])
    BY <1>5, <1>t DEF Apply, Ended
  <2>2. ~(e.code = "camera_state" /\ e.value = FUJI_MULTIPLE_TRANSFER)
    BY <2>1 DEF Quiet, Values, FUJI_MULTIPLE_TRANSFER, Props, Fields
  <2>3. /\ pc' = "apply" /\ i' = i + 1 /\ UNCHANGED <<buffer, cam, untold>>
        /\ fuji' = IF e.code \in Fields THEN [fuji EXCEPT ![e.code] = e.value] ELSE fuji
    <3>1. PICK f \in Read(e) :
              /\ fuji' = IF f.code \in Fields THEN [fuji EXCEPT ![f.code] = f.value]
                         ELSE fuji
              /\ LET queues == f.code = "camera_state" /\ f.value = FUJI_MULTIPLE_TRANSFER
                     tether == f.code = "FreeSDRAMImages" /\ transport = "WIRELESS_TETHER"
                 IN  /\ pc' = CASE queues -> "queue" [] tether -> "handles" [] OTHER -> pc
                     /\ i' = IF queues \/ tether THEN i ELSE i + 1
      BY <1>5 DEF Apply
    <3>2. f = e
      BY <2>1, ReadType
    <3>3. UNCHANGED <<buffer, cam, untold>> /\ pc = "apply"
      BY <1>5 DEF Apply
    <3> QED  BY <2>2, <3>1, <3>2, <3>3 DEF Quiet
  <2>4. ASSUME NEW p \in Fields \ untold
        PROVE  fuji'[p] = cam'[p] \/ Ahead(p)'
    <3>1. CASE e.code = p
      BY <1>t, <2>1, <2>3, <3>1
    <3>2. CASE e.code # p /\ fuji[p] = cam[p]
      BY <1>t, <2>3, <3>2
    <3>3. CASE e.code # p /\ Ahead(p)
      BY <1>t, <2>1, <2>3, <3>3
    <3> QED  BY <1>5, <3>1, <3>2, <3>3 DEF Apply
  <2>5. \A n \in i' .. Len(buffer') :
            buffer'[n].code \in Props /\ buffer'[n].value \in Values(buffer'[n].code)
              /\ (buffer'[n].code \in untold' \/ buffer'[n].value = cam'[buffer'[n].code])
    BY <1>5, <1>t, <2>1, <2>3 DEF Apply
  <2> HIDE DEF e, Ahead
  <2> QED  BY <1>v, <2>3, <2>4, <2>5
<1>6. CASE QueueOne \/ GetHandles \/ QueueObjects \/ ObjectsEnd
  BY <1>6 DEF QueueOne, GetHandles, QueueObjects, ObjectsEnd
<1> QED  BY <1>0, <1>1, <1>2, <1>3, <1>4, <1>5, <1>6 DEF Next, InPoll

LEMMA InitInv == Init => IInv
<1> SUFFICES ASSUME Init PROVE IInv
  OBVIOUS
<1>1. PICK s \in Values("camera_state") :
          cam = [p \in Props |-> IF p = "camera_state" THEN s ELSE 0]
  BY DEF Init
<1>2. \A p \in Props : cam[p] \in Values(p)
  BY <1>1, EventsAssumption DEF Values, Props, Fields
<1>3. CamTyped /\ FieldsTyped
  <2>1. cam = [p \in Props |-> cam[p]] /\ fuji = [p \in Fields |-> fuji[p]]
    BY <1>1 DEF Init
  <2>2. \A p \in Fields : fuji[p] \in Nat
    BY <1>2, ValuesAreNat DEF Init, Props
  <2> QED  BY <1>2, <2>1, <2>2, EventsAssumption DEF Init, CamTyped, FieldsTyped
<1>4. ListTyped /\ HandlesTyped /\ QueueTyped /\ PlaceTyped
  <2>1. /\ buffer = <<>> /\ a = <<>> /\ queue = {} /\ y = 1
    BY DEF Init
  <2>2. ListTyped /\ HandlesTyped /\ QueueTyped
    BY <2>1, EventsAssumption DEF ListTyped, HandlesTyped, QueueTyped
  <2>3. PlaceTyped
    <3>1. refused \in BOOLEAN
      BY Zenon DEF Init
    <3>2. pc = "idle" /\ i = 1 /\ rc = "OK"
      BY DEF Init
    <3> QED  BY <3>1, <3>2, EventsAssumption DEF PlaceTyped
  <2> QED  BY <2>2, <2>3
<1>5. QuietInv
  BY DEF Init, QuietInv
<1> QED  BY <1>3, <1>4, <1>5 DEF IInv, TypeInv

\* The inductive invariant.
THEOREM Invariance == Spec => []IInv
<1>1. IInv /\ [Next]_vars => IInv'
  BY TypeStep, QuietStep DEF IInv
<1> QED  BY InitInv, <1>1, PTL DEF Spec

\* The variables stay in their types: the index goes at most one past the
\* longest list that a length can announce, whatever is received over the list
\* while it is read.  The handles may be read past their end (Picked).
THEOREM TypeCorrect == Spec => []TypeOK
BY Invariance, TypeIsType, PTL DEF IInv

\* After a poll of a quiet camera the client knows every change that has been
\* told, in any order and with any changes while the list was read.
THEOREM NoChangeIsMissed == Spec => []Tracks
<1>1. IInv => Tracks
  BY DEF IInv, QuietInv, Tracks
<1> QED  BY Invariance, <1>1, PTL
=============================================================================
