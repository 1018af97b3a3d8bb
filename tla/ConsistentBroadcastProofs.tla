--------------------- MODULE ConsistentBroadcastProofs ---------------------
(***************************************************************************)
(* Consistent broadcast for every number of processes and messages: the    *)
(* inductive invariant, and with it the type invariant, the refinement of  *)
(* CertifiedBroadcast and that nothing is kept.                            *)
(***************************************************************************)
EXTENDS ConsistentBroadcast, TLAPS, FiniteSetTheorems

Initiate(id, p) == Send("Initiate", id, id.process_id, p)
Signature(id, p) == Send("Signature", id, p, id.process_id)
Certificate(id, p) == Send("Certificate", id, id.process_id, p)

Initiating(id, p) == Initiate(id, p) \in network
Certifying(id, p) == Certificate(id, p) \in network
Signing(id) == {p \in Process : Signature(id, p) \in network}

Holds(p, id) == id \in DOMAIN messages[p]
Waits(p, id) == id \in waiting_certificates[p]

Count(id) == messages[id.process_id][id]

\* The certificate of id went out.
Certified(id) == Holds(id.process_id, id) => Count(id) >= QuorumSize

-----------------------------------------------------------------------------
\* The inductive invariant.

Typed ==
    /\ started \subseteq MessageId
    /\ waiting_certificates \in [Process -> SUBSET started]
    /\ DOMAIN messages = Process
    /\ \A p \in Process : DOMAIN messages[p] \subseteq started \ waiting_certificates[p]
    /\ \A p \in Process : \A id \in DOMAIN messages[p] :
          /\ messages[p][id] \in Nat
          /\ id.process_id # p => messages[p][id] = 0
    /\ signed \in [MessageId -> SUBSET Process]
    /\ delivered \in [Process -> [MessageId -> 0 .. 1]]

\* Only started messages travel, between their source and the others.
Routed == \A m \in network : \E id \in started, p \in Process :
              m \in {Initiate(id, p), Signature(id, p), Certificate(id, p)}

Unstarted ==
    \A id \in MessageId \ started :
        signed[id] = {} /\ \A p \in Process : delivered[p][id] = 0

\* An Initiate finds a process that has not signed and, but for the source,
\* neither holds the message nor has delivered it.
Arriving ==
    \A id \in MessageId, p \in Process :
        Initiating(id, p) =>
            /\ p \notin signed[id]
            /\ p # id.process_id => ~Holds(p, id) /\ delivered[p][id] = 0

HeldOnce ==
    \A id \in MessageId, p \in Process : Holds(p, id) => delivered[p][id] = 0

\* The source has counted what was signed and is not on its way.
Counted ==
    \A id \in MessageId :
        /\ Signing(id) \subseteq signed[id]
        /\ Holds(id.process_id, id) =>
              Count(id) + Cardinality(Signing(id)) = Cardinality(signed[id])

Quorate ==
    \A id \in MessageId, p \in Process :
        Certifying(id, p) \/ Waits(p, id) => Cardinality(signed[id]) >= QuorumSize

\* Before the certificate goes out everyone will get the message or has it
\* and has signed it.
BeforeCertificate ==
    \A id \in started, p \in Process :
        ~Certified(id) =>
            /\ ~Certifying(id, p) /\ ~Waits(p, id)
            /\ Initiating(id, p) \/ (p \in signed[id] /\ Holds(p, id))

\* Once it went out, whoever has the message without it will get it, and
\* whoever has it without the message will get the message.
AfterCertificate ==
    \A id \in started, p \in Process :
        Certified(id) =>
            /\ Holds(p, id) => Certifying(id, p)
            /\ Initiating(id, p) /\ p # id.process_id => Certifying(id, p) \/ Waits(p, id)

MessageOnItsWay ==
    \A id \in MessageId, p \in Process :
        /\ Waits(p, id) => ~Certifying(id, p)
        /\ Waits(p, id) \/ (Certifying(id, p) /\ ~Holds(p, id)) =>
              Initiating(id, p) /\ p # id.process_id

IInv ==
    /\ Typed /\ Routed /\ Unstarted /\ Arriving /\ HeldOnce /\ Counted /\ Quorate
    /\ BeforeCertificate /\ AfterCertificate /\ MessageOnItsWay

-----------------------------------------------------------------------------
\* Arithmetic and messages.

(***************************************************************************)
(* A quorum is not empty and there are enough processes for one.           *)
(***************************************************************************)
LEMMA QuorumFits ==
    /\ Cardinality(Process) \in Nat
    /\ QuorumSize \in Nat /\ 1 <= QuorumSize /\ QuorumSize <= Cardinality(Process)
<1>1. Cardinality(Process) \in Nat /\ Cardinality(Process) # 0
  BY ConsistentBroadcastAssumption, FS_CardinalityType, FS_EmptySet
<1>2. ASSUME NEW n \in Nat, n # 0
      PROVE  LET q == 2 * ((n - 1) \div 3) + 1 IN q \in Nat /\ 1 <= q /\ q <= n
  BY <1>2
<1> QED
  BY <1>1, <1>2 DEF QuorumSize

(***************************************************************************)
(* Every message is of a process.                                          *)
(***************************************************************************)
LEMMA Sources == \A id \in MessageId : id.process_id \in Process
  BY ConsistentBroadcastAssumption

(***************************************************************************)
(* Every message has a kind, an id and one other end of its own.           *)
(***************************************************************************)
LEMMA MessagesDiffer ==
    ASSUME NEW i \in MessageId, NEW j \in MessageId, NEW p \in Process, NEW q \in Process
    PROVE  /\ Initiate(i, p) = Initiate(j, q) <=> i = j /\ p = q
           /\ Signature(i, p) = Signature(j, q) <=> i = j /\ p = q
           /\ Certificate(i, p) = Certificate(j, q) <=> i = j /\ p = q
           /\ Initiate(i, p) # Signature(j, q)
           /\ Initiate(i, p) # Certificate(j, q)
           /\ Signature(i, p) # Certificate(j, q)
  BY DEF Initiate, Signature, Certificate, Send

(***************************************************************************)
(* What a message says where it arrives.                                   *)
(***************************************************************************)
LEMMA MessageFields ==
    ASSUME NEW id, NEW p
    PROVE  /\ Initiate(id, p).type = "Initiate" /\ Initiate(id, p).id = id
           /\ Initiate(id, p).from = id.process_id /\ Initiate(id, p).to = p
           /\ Signature(id, p).type = "Signature" /\ Signature(id, p).id = id
           /\ Signature(id, p).from = p /\ Signature(id, p).to = id.process_id
           /\ Certificate(id, p).type = "Certificate" /\ Certificate(id, p).id = id
           /\ Certificate(id, p).from = id.process_id /\ Certificate(id, p).to = p
  BY DEF Initiate, Signature, Certificate, Send

(***************************************************************************)
(* There are never more signatures on their way, and never more signers,   *)
(* than processes.                                                         *)
(***************************************************************************)
LEMMA Countable ==
    ASSUME Typed, NEW id \in MessageId
    PROVE  /\ IsFiniteSet(Signing(id)) /\ Cardinality(Signing(id)) \in Nat
           /\ IsFiniteSet(signed[id]) /\ Cardinality(signed[id]) \in Nat
           /\ Cardinality(signed[id]) <= Cardinality(Process)
<1>1. Signing(id) \subseteq Process /\ signed[id] \subseteq Process
  BY DEF Signing, Typed
<1> QED
  BY <1>1, ConsistentBroadcastAssumption, FS_Subset, FS_CardinalityType

(***************************************************************************)
(* A network without Certificate(id, p).                                   *)
(***************************************************************************)
LEMMA WithoutCertificate ==
    ASSUME NEW id \in MessageId, NEW p \in Process,
           network' = network \ {Certificate(id, p)}
    PROVE  \A i \in MessageId, q \in Process :
              /\ Initiating(i, q)' <=> Initiating(i, q)
              /\ Certifying(i, q)' <=> Certifying(i, q) /\ ~(i = id /\ q = p)
              /\ Signing(i)' = Signing(i)
  BY MessagesDiffer DEF Initiating, Certifying, Signing

-----------------------------------------------------------------------------
\* The invariant is inductive.

(***************************************************************************)
(* A new message: its Initiate goes to everyone.                           *)
(***************************************************************************)
LEMMA StartKeeps ==
    ASSUME IInv, NEW id \in MessageId, ReliablyBroadcast(id)
    PROVE  IInv'
<1> DEFINE s == id.process_id
<1>1. s \in Process /\ id \notin started /\ started' = started \cup {id}
  BY Sources DEF ReliablyBroadcast
<1>2. \A i \in MessageId, q \in Process :
         /\ Initiating(i, q)' <=> Initiating(i, q) \/ i = id
         /\ Certifying(i, q)' <=> Certifying(i, q)
         /\ Signing(i)' = Signing(i)
  <2>1. network' = network \cup {Initiate(id, q) : q \in Process}
    BY DEF ReliablyBroadcast, Broadcast, Initiate
  <2> QED
    BY <2>1, MessagesDiffer DEF Initiating, Certifying, Signing
<1>3. /\ \A q \in Process, i \in MessageId :
            Holds(q, i)' <=> Holds(q, i) \/ (i = id /\ q = s)
      /\ Count(id)' = 0
      /\ \A i \in MessageId \ {id} : Holds(i.process_id, i) => Count(i)' = Count(i)
      /\ \A q \in Process, i \in MessageId : Waits(q, i)' <=> Waits(q, i)
  <2>1. /\ messages'[s] = Put(messages[s], id, 0)
        /\ \A q \in Process \ {s} : messages'[q] = messages[q]
    BY <1>1 DEF IInv, Typed, ReliablyBroadcast
  <2> QED
    BY <1>1, <2>1, Sources DEF ReliablyBroadcast, Put, Holds, Waits, Count
<1>4. \A q \in Process :
         /\ ~Holds(q, id) /\ ~Waits(q, id)
         /\ ~Initiating(id, q) /\ ~Certifying(id, q) /\ Signing(id) = {}
  <2>1. \A m \in network : m.id # id
    BY <1>1, MessageFields DEF IInv, Routed
  <2> QED
    BY <1>1, <2>1, MessageFields
    DEF IInv, Typed, Holds, Waits, Initiating, Certifying, Signing
<1>5. signed' = signed /\ delivered' = delivered
  BY DEF ReliablyBroadcast
<1>6. \A i \in MessageId : Certified(i)' <=> Certified(i) /\ i # id
  BY <1>1, <1>3, <1>4, Sources, QuorumFits DEF Certified
<1>7. Typed'
  BY <1>1 DEF IInv, Typed, ReliablyBroadcast, Put
<1>8. Routed'
  <2>1. \A m \in network' : m \in network \/ \E q \in Process : m = Initiate(id, q)
    BY DEF ReliablyBroadcast, Broadcast, Initiate
  <2> QED
    BY <1>1, <2>1 DEF IInv, Routed, Initiate, Signature, Certificate
<1>9. Unstarted' /\ HeldOnce'
  BY <1>1, <1>3, <1>5 DEF IInv, Unstarted, HeldOnce
<1>10. Arriving'
  BY <1>1, <1>2, <1>3, <1>4, <1>5 DEF IInv, Unstarted, Arriving
<1>11. Counted'
  <2>1. signed[id] = {} /\ Cardinality({}) = 0
    BY <1>1, FS_EmptySet DEF IInv, Unstarted
  <2>2. SUFFICES ASSUME NEW i \in MessageId
                 PROVE  /\ Signing(i)' \subseteq signed[i]
                        /\ Holds(i.process_id, i)' =>
                              Count(i)' + Cardinality(Signing(i)) = Cardinality(signed[i])
    BY <1>1, <1>2, <1>5 DEF Counted
  <2>3. CASE i = id
    BY <1>1, <1>2, <1>3, <1>4, <2>1, <2>3
  <2>4. CASE i # id
    BY <1>1, <1>2, <1>3, <2>4, Sources DEF IInv, Counted
  <2> QED
    BY <2>3, <2>4
<1>12. Quorate'
  BY <1>2, <1>3, <1>5 DEF IInv, Quorate
<1>13. BeforeCertificate' /\ AfterCertificate' /\ MessageOnItsWay'
  BY <1>1, <1>2, <1>3, <1>4, <1>5, <1>6
  DEF IInv, Typed, BeforeCertificate, AfterCertificate, MessageOnItsWay
<1> QED
  BY <1>7, <1>8, <1>9, <1>10, <1>11, <1>12, <1>13 DEF IInv

(***************************************************************************)
(* A certificate waits where its message has not come yet and is used up   *)
(* where the message is.                                                   *)
(***************************************************************************)
LEMMA CertificateKeeps ==
    ASSUME IInv, NEW m \in network, OnCertificate(m)
    PROVE  IInv'
<1>1. PICK id \in started, p \in Process : m = Certificate(id, p)
  BY MessageFields DEF IInv, Routed, OnCertificate
<1>2. /\ m.id = id /\ m.to = p /\ Certifying(id, p)
      /\ id \in MessageId /\ id.process_id \in Process
  BY <1>1, MessageFields, Sources DEF IInv, Typed, Certifying
<1>3. network' = network \ {Certificate(id, p)}
  BY <1>1 DEF OnCertificate
<1>4. \A i \in MessageId, q \in Process :
         /\ Initiating(i, q)' <=> Initiating(i, q)
         /\ Certifying(i, q)' <=> Certifying(i, q) /\ ~(i = id /\ q = p)
         /\ Signing(i)' = Signing(i)
  BY <1>2, <1>3, WithoutCertificate
<1>5. started' = started /\ signed' = signed
  BY DEF OnCertificate
<1>6. Routed'
  BY <1>3, <1>5 DEF IInv, Routed, Initiate, Signature, Certificate
<1>7. Certified(id)
  BY <1>2 DEF IInv, BeforeCertificate
<1>8. CASE ~Holds(p, id)
  <2>1. /\ messages' = messages /\ delivered' = delivered
        /\ waiting_certificates' = [waiting_certificates EXCEPT ![p] = @ \cup {id}]
    BY <1>2, <1>8 DEF OnCertificate, Holds
  <2>2. \A i \in MessageId, q \in Process :
           /\ Holds(q, i)' <=> Holds(q, i)
           /\ Count(i)' = Count(i)
           /\ Certified(i)' <=> Certified(i)
           /\ Waits(q, i)' <=> Waits(q, i) \/ (i = id /\ q = p)
    BY <1>2, <2>1 DEF IInv, Typed, Holds, Count, Certified, Waits
  <2>3. Typed'
    BY <1>2, <1>5, <1>8, <2>1 DEF IInv, Typed, Holds
  <2>4. Unstarted' /\ Arriving' /\ HeldOnce' /\ Counted'
    BY <1>4, <1>5, <2>1, <2>2, Sources
    DEF IInv, Unstarted, Arriving, HeldOnce, Counted
  <2>5. Quorate'
    BY <1>2, <1>4, <1>5, <2>2 DEF IInv, Quorate
  <2>6. BeforeCertificate' /\ AfterCertificate' /\ MessageOnItsWay'
    BY <1>2, <1>4, <1>5, <1>7, <1>8, <2>1, <2>2
    DEF IInv, Typed, BeforeCertificate, AfterCertificate, MessageOnItsWay
  <2> QED
    BY <1>6, <2>3, <2>4, <2>5, <2>6 DEF IInv
<1>9. CASE Holds(p, id)
  <2>1. /\ messages' = [messages EXCEPT ![p] = Remove(@, id)]
        /\ delivered' = [delivered EXCEPT ![p][id] = @ + 1]
        /\ waiting_certificates' = waiting_certificates
    BY <1>2, <1>9 DEF OnCertificate, Holds, Deliver
  <2>2. /\ messages'[p] = Remove(messages[p], id)
        /\ \A q \in Process \ {p} : messages'[q] = messages[q]
    BY <2>1 DEF IInv, Typed
  <2>3. \A i \in MessageId, q \in Process :
           /\ Holds(q, i)' <=> Holds(q, i) /\ ~(i = id /\ q = p)
           /\ Waits(q, i)' <=> Waits(q, i)
           /\ Holds(i.process_id, i)' => Count(i)' = Count(i)
    BY <1>2, <2>1, <2>2, Sources DEF Remove, Holds, Count, Waits
  <2>4. \A i \in MessageId : Certified(i)' <=> Certified(i)
    BY <1>2, <1>7, <2>3, Sources DEF Certified
  <2>5. delivered[p][id] = 0
    BY <1>2, <1>9 DEF IInv, HeldOnce
  <2>6. \A i \in MessageId, q \in Process :
           delivered'[q][i] = IF i = id /\ q = p THEN 1 ELSE delivered[q][i]
    BY <1>2, <2>1, <2>5 DEF IInv, Typed
  <2>7. Typed'
    BY <1>2, <1>5, <2>1, <2>2, <2>5 DEF IInv, Typed, Remove
  <2>8. Unstarted' /\ HeldOnce'
    BY <1>2, <1>5, <2>3, <2>6 DEF IInv, Unstarted, HeldOnce
  <2>9. Arriving'
    BY <1>2, <1>4, <1>5, <1>9, <2>3, <2>6 DEF IInv, Arriving
  <2>10. Counted'
    BY <1>4, <1>5, <2>3, Sources DEF IInv, Counted
  <2>11. Quorate'
    BY <1>4, <1>5, <2>3 DEF IInv, Quorate
  <2>12. BeforeCertificate' /\ AfterCertificate' /\ MessageOnItsWay'
    BY <1>2, <1>4, <1>5, <1>7, <1>9, <2>1, <2>3, <2>4
    DEF IInv, Typed, Arriving, BeforeCertificate, AfterCertificate, MessageOnItsWay
  <2> QED
    BY <1>6, <2>7, <2>8, <2>9, <2>10, <2>11, <2>12 DEF IInv
<1> QED
  BY <1>8, <1>9

(***************************************************************************)
(* A process that gets the message of another delivers it, where the       *)
(* certificate waits, and otherwise keeps and signs it; the source signs   *)
(* its own.                                                                *)
(***************************************************************************)
LEMMA InitiateKeeps ==
    ASSUME IInv, NEW m \in network, OnInitiate(m)
    PROVE  IInv'
<1>1. PICK id \in started, p \in Process : m = Initiate(id, p)
  BY MessageFields DEF IInv, Routed, OnInitiate
<1> DEFINE s == id.process_id
<1>2. /\ m.id = id /\ m.to = p /\ m.from = s /\ Initiating(id, p)
      /\ id \in MessageId /\ s \in Process
  BY <1>1, MessageFields, Sources DEF IInv, Typed, Initiating
<1>3. /\ p \notin signed[id]
      /\ p # s => ~Holds(p, id) /\ delivered[p][id] = 0
  BY <1>2 DEF IInv, Arriving
<1>4. started' = started
  BY DEF OnInitiate, StoreAndSign
<1>5. CASE p # s /\ Waits(p, id)
  <2>1. /\ messages' = messages /\ signed' = signed
        /\ network' = network \ {Initiate(id, p)}
        /\ delivered' = [delivered EXCEPT ![p][id] = @ + 1]
        /\ waiting_certificates' = [waiting_certificates EXCEPT ![p] = @ \ {id}]
    BY <1>1, <1>2, <1>5 DEF OnInitiate, Waits, Deliver
  <2>2. \A i \in MessageId, q \in Process :
           /\ Initiating(i, q)' <=> Initiating(i, q) /\ ~(i = id /\ q = p)
           /\ Certifying(i, q)' <=> Certifying(i, q)
           /\ Signing(i)' = Signing(i)
    BY <1>2, <2>1, MessagesDiffer DEF Initiating, Certifying, Signing
  <2>3. \A i \in MessageId, q \in Process :
           /\ Holds(q, i)' <=> Holds(q, i)
           /\ Count(i)' = Count(i)
           /\ Certified(i)' <=> Certified(i)
           /\ Waits(q, i)' <=> Waits(q, i) /\ ~(i = id /\ q = p)
    BY <1>2, <2>1 DEF IInv, Typed, Holds, Count, Certified, Waits
  <2>4. \A i \in MessageId, q \in Process :
           delivered'[q][i] = IF i = id /\ q = p THEN 1 ELSE delivered[q][i]
    BY <1>2, <1>3, <1>5, <2>1 DEF IInv, Typed
  <2>5. Typed'
    BY <1>2, <1>3, <1>4, <1>5, <2>1 DEF IInv, Typed
  <2>6. Routed'
    BY <1>4, <2>1 DEF IInv, Routed, Initiate, Signature, Certificate
  <2>7. Unstarted' /\ Arriving' /\ HeldOnce'
    BY <1>2, <1>3, <1>4, <1>5, <2>1, <2>2, <2>3, <2>4
    DEF IInv, Unstarted, Arriving, HeldOnce
  <2>8. Counted' /\ Quorate'
    BY <2>1, <2>2, <2>3, Sources DEF IInv, Counted, Quorate
  <2>9. BeforeCertificate' /\ AfterCertificate' /\ MessageOnItsWay'
    BY <1>2, <1>3, <1>4, <1>5, <2>1, <2>2, <2>3
    DEF IInv, Typed, BeforeCertificate, AfterCertificate, MessageOnItsWay
  <2> QED
    BY <2>5, <2>6, <2>7, <2>8, <2>9 DEF IInv
<1>6. CASE p = s \/ ~Waits(p, id)
  <2>1. /\ waiting_certificates' = waiting_certificates /\ delivered' = delivered
        /\ network' = (network \ {Initiate(id, p)}) \cup {Signature(id, p)}
        /\ signed' = [signed EXCEPT ![id] = @ \cup {p}]
        /\ messages' = IF p = s THEN messages
                       ELSE [messages EXCEPT ![p] = Put(@, id, 0)]
    BY <1>1, <1>2, <1>6 DEF OnInitiate, Waits, StoreAndSign, Sign, Signature
  <2>2. \A i \in MessageId, q \in Process :
           /\ Initiating(i, q)' <=> Initiating(i, q) /\ ~(i = id /\ q = p)
           /\ Certifying(i, q)' <=> Certifying(i, q)
           /\ Signing(i)' = IF i = id THEN Signing(id) \cup {p} ELSE Signing(i)
    BY <1>2, <2>1, MessagesDiffer DEF Initiating, Certifying, Signing
  <2>3. /\ messages'[p] = IF p = s THEN messages[p] ELSE Put(messages[p], id, 0)
        /\ \A q \in Process \ {p} : messages'[q] = messages[q]
    BY <2>1 DEF IInv, Typed
  <2>4. \A i \in MessageId, q \in Process :
           /\ Holds(q, i)' <=> Holds(q, i) \/ (i = id /\ q = p /\ p # s)
           /\ Waits(q, i)' <=> Waits(q, i)
           /\ Holds(i.process_id, i) => Count(i)' = Count(i)
    BY <1>2, <2>1, <2>3, Sources DEF Put, Holds, Count, Waits
  <2>5. \A i \in MessageId : Certified(i)' <=> Certified(i)
    BY <1>2, <2>4, Sources DEF Certified
  <2>6. \A i \in MessageId :
           signed'[i] = IF i = id THEN signed[i] \cup {p} ELSE signed[i]
    BY <2>1 DEF IInv, Typed
  <2>7. Typed'
    BY <1>2, <1>4, <1>6, <2>1, <2>3 DEF IInv, Typed, Waits, Put
  <2>8. Routed'
    BY <1>4, <2>1 DEF IInv, Routed, Initiate, Signature, Certificate
  <2>9. Unstarted' /\ HeldOnce'
    BY <1>2, <1>3, <1>4, <2>1, <2>4, <2>6 DEF IInv, Unstarted, HeldOnce
  <2>10. Arriving'
    BY <1>2, <2>1, <2>2, <2>4, <2>6 DEF IInv, Arriving
  <2>11. /\ Cardinality(signed[id] \cup {p}) = Cardinality(signed[id]) + 1
         /\ Cardinality(Signing(id) \cup {p}) = Cardinality(Signing(id)) + 1
    BY <1>2, <1>3, Countable, FS_AddElement DEF IInv, Counted
  <2>12. Counted'
    <3>1. SUFFICES ASSUME NEW i \in MessageId
                   PROVE  /\ Signing(i)' \subseteq signed'[i]
                          /\ Holds(i.process_id, i)' =>
                                Count(i)' + Cardinality(Signing(i)') = Cardinality(signed'[i])
      BY DEF Counted
    <3>2. CASE i = id
      <4>1. Holds(s, id)' => Holds(s, id) /\ Count(id) \in Nat /\ Count(id)' = Count(id)
        BY <1>2, <2>4 DEF IInv, Typed, Holds, Count
      <4>2. /\ Signing(id) \subseteq signed[id]
            /\ Holds(s, id) => Count(id) + Cardinality(Signing(id)) = Cardinality(signed[id])
        BY <1>2 DEF IInv, Counted
      <4>3. Cardinality(Signing(id)) \in Nat /\ Cardinality(signed[id]) \in Nat
        BY <1>2, Countable DEF IInv
      <4>4. Signing(id)' = Signing(id) \cup {p} /\ signed'[id] = signed[id] \cup {p}
        BY <1>2, <2>2, <2>6
      <4> QED
        BY <2>11, <3>2, <4>1, <4>2, <4>3, <4>4
    <3>3. CASE i # id
      <4>1. Signing(i)' = Signing(i) /\ signed'[i] = signed[i]
        BY <1>2, <2>2, <2>6, <3>3
      <4> QED
        BY <1>2, <2>4, <3>3, <4>1, Sources DEF IInv, Counted
    <3> QED
      BY <3>2, <3>3
  <2>13. Quorate'
    <3>1. \A i \in MessageId : /\ Cardinality(signed[i]) \in Nat
                               /\ \/ signed'[i] = signed[i]
                                  \/ Cardinality(signed'[i]) = Cardinality(signed[i]) + 1
      BY <1>2, <2>6, <2>11, Countable DEF IInv
    <3>2. ASSUME NEW i \in MessageId, Cardinality(signed[i]) >= QuorumSize
          PROVE  Cardinality(signed'[i]) >= QuorumSize
      BY <3>1, <3>2, QuorumFits
    <3> QED
      BY <2>2, <2>4, <3>2 DEF IInv, Quorate
  <2>14. BeforeCertificate' /\ AfterCertificate' /\ MessageOnItsWay'
    <3>1. ~Certified(id) => Holds(s, id)
      BY DEF Certified
    <3>2. BeforeCertificate'
      <4>1. SUFFICES ASSUME NEW i \in started, NEW q \in Process, ~Certified(i)
                     PROVE  /\ ~Certifying(i, q)' /\ ~Waits(q, i)'
                            /\ Initiating(i, q)' \/ (q \in signed'[i] /\ Holds(q, i)')
        BY <1>4, <2>5 DEF IInv, Typed, BeforeCertificate
      <4>2. /\ i \in MessageId /\ ~Certifying(i, q) /\ ~Waits(q, i)
            /\ Initiating(i, q) \/ (q \in signed[i] /\ Holds(q, i))
        BY <4>1 DEF IInv, Typed, BeforeCertificate
      <4> QED
        BY <1>2, <2>2, <2>4, <2>6, <3>1, <4>1, <4>2
    <3>3. AfterCertificate'
      BY <1>2, <1>4, <1>6, <2>2, <2>4, <2>5 DEF IInv, Typed, AfterCertificate
    <3>4. MessageOnItsWay'
      BY <1>2, <1>3, <1>6, <2>2, <2>4 DEF IInv, MessageOnItsWay
    <3> QED
      BY <3>2, <3>3, <3>4
  <2> QED
    BY <2>7, <2>8, <2>9, <2>10, <2>12, <2>13, <2>14 DEF IInv
<1> QED
  BY <1>5, <1>6

(***************************************************************************)
(* A signature is counted while its source holds the message; the one that *)
(* completes a quorum sends the certificate to everyone.                   *)
(***************************************************************************)
LEMMA SignatureKeeps ==
    ASSUME IInv, NEW m \in network, OnSignature(m)
    PROVE  IInv'
<1>1. PICK id \in started, p \in Process : m = Signature(id, p)
  BY MessageFields DEF IInv, Routed, OnSignature
<1> DEFINE s == id.process_id
           sends == Holds(s, id) /\ Count(id) + 1 = QuorumSize
<1>2. /\ m.id = id /\ m.to = s /\ p \in Signing(id)
      /\ id \in MessageId /\ s \in Process
  BY <1>1, MessageFields, Sources DEF IInv, Typed, Signing
<1>3. /\ started' = started /\ signed' = signed /\ delivered' = delivered
      /\ waiting_certificates' = waiting_certificates
  BY DEF OnSignature
<1>4. /\ messages' = IF Holds(s, id) THEN [messages EXCEPT ![s][id] = Count(id) + 1]
                     ELSE messages
      /\ network' = (network \ {Signature(id, p)})
                       \cup (IF sends THEN {Certificate(id, q) : q \in Process} ELSE {})
  BY <1>1, <1>2 DEF OnSignature, Certifies, Broadcast, Certificate, Holds, Count
<1>5. \A i \in MessageId, q \in Process :
         /\ Initiating(i, q)' <=> Initiating(i, q)
         /\ Certifying(i, q)' <=> Certifying(i, q) \/ (i = id /\ sends)
         /\ Signing(i)' = IF i = id THEN Signing(id) \ {p} ELSE Signing(i)
  BY <1>2, <1>4, MessagesDiffer DEF Initiating, Certifying, Signing
<1>6. \A i \in MessageId, q \in Process :
         /\ Holds(q, i)' <=> Holds(q, i)
         /\ Waits(q, i)' <=> Waits(q, i)
  BY <1>2, <1>3, <1>4 DEF IInv, Typed, Holds, Waits
<1>7. /\ Holds(s, id) => Count(id) \in Nat /\ Count(id)' = Count(id) + 1
      /\ \A i \in MessageId \ {id} : Count(i)' = Count(i)
  BY <1>2, <1>4, Sources DEF IInv, Typed, Holds, Count
<1>8. \A i \in MessageId : Certified(i)' <=> Certified(i) \/ (i = id /\ sends)
  <2>1. Certified(id)' <=> Certified(id) \/ sends
    BY <1>2, <1>6, <1>7, QuorumFits DEF Certified
  <2> QED
    BY <1>6, <1>7, <2>1, Sources DEF Certified
<1>9. sends => ~Certified(id)
  BY <1>7, QuorumFits DEF Certified
<1>10. Typed'
  BY <1>2, <1>3, <1>4, <1>7 DEF IInv, Typed, Holds
<1>11. Routed'
  <2>1. \A n \in network' : n \in network \/ \E q \in Process : n = Certificate(id, q)
    BY <1>4
  <2> QED
    BY <1>3, <2>1 DEF IInv, Routed, Initiate, Signature, Certificate
<1>12. Unstarted' /\ Arriving' /\ HeldOnce'
  BY <1>3, <1>5, <1>6 DEF IInv, Unstarted, Arriving, HeldOnce
<1>13. /\ Signing(id) \subseteq signed[id]
       /\ Holds(s, id) => Count(id) + Cardinality(Signing(id)) = Cardinality(signed[id])
       /\ Cardinality(Signing(id)) \in Nat /\ Cardinality(signed[id]) \in Nat
       /\ Cardinality(Signing(id) \ {p}) = Cardinality(Signing(id)) - 1
  BY <1>2, Countable, FS_RemoveElement DEF IInv, Counted
<1>14. Counted'
  <2>1. SUFFICES ASSUME NEW i \in MessageId
                 PROVE  /\ Signing(i)' \subseteq signed[i]
                        /\ Holds(i.process_id, i) =>
                              Count(i)' + Cardinality(Signing(i)') = Cardinality(signed[i])
    BY <1>3, <1>6, Sources DEF Counted
  <2>2. CASE i = id
    <3>1. /\ Signing(id)' = Signing(id) \ {p}
          /\ Holds(s, id) => Count(id) \in Nat /\ Count(id)' = Count(id) + 1
      BY <1>2, <1>5, <1>7
    <3>2. /\ Signing(id) \ {p} \subseteq signed[id]
          /\ Holds(s, id) =>
                Count(id) + 1 + Cardinality(Signing(id) \ {p}) = Cardinality(signed[id])
      BY <1>13, <3>1
    <3> QED
      BY <2>2, <3>1, <3>2
  <2>3. CASE i # id
    <3>1. Signing(i)' = Signing(i) /\ Count(i)' = Count(i)
      BY <1>5, <1>7, <2>3
    <3> QED
      BY <3>1 DEF IInv, Counted
  <2> QED
    BY <2>2, <2>3
<1>15. Quorate'
  <2>1. sends => Cardinality(signed[id]) >= QuorumSize
    <3>1. Cardinality(Signing(id) \ {p}) \in Nat
      BY <1>2, Countable, FS_RemoveElement, FS_CardinalityType DEF IInv
    <3> QED
      BY <1>7, <1>13, <3>1, QuorumFits
  <2> QED
    BY <1>3, <1>5, <1>6, <2>1 DEF IInv, Quorate
<1>16. BeforeCertificate'
  BY <1>3, <1>5, <1>6, <1>8 DEF IInv, Typed, BeforeCertificate
<1>17. AfterCertificate' /\ MessageOnItsWay'
  BY <1>2, <1>3, <1>5, <1>6, <1>8, <1>9
  DEF IInv, Typed, BeforeCertificate, AfterCertificate, MessageOnItsWay
<1> QED
  BY <1>10, <1>11, <1>12, <1>14, <1>15, <1>16, <1>17 DEF IInv

(***************************************************************************)
(* Nothing has happened.                                                   *)
(***************************************************************************)
LEMMA InitInvariant == Init => IInv
<1> SUFFICES ASSUME Init PROVE IInv
  OBVIOUS
<1>1. \A p \in Process, id \in MessageId :
         /\ ~Holds(p, id) /\ ~Waits(p, id)
         /\ ~Initiating(id, p) /\ ~Certifying(id, p) /\ Signing(id) = {}
  BY DEF Init, Holds, Waits, Initiating, Certifying, Signing
<1>2. Typed /\ Routed
  BY DEF Init, Typed, Routed
<1> QED
  BY <1>1, <1>2, Sources
  DEF IInv, Init, Typed, Unstarted, Arriving, HeldOnce, Counted, Quorate,
      BeforeCertificate, AfterCertificate, MessageOnItsWay

(***************************************************************************)
(* Every step keeps the invariant.                                         *)
(***************************************************************************)
LEMMA StepInvariant == IInv /\ [Next]_vars => IInv'
<1> SUFFICES ASSUME IInv, [Next]_vars PROVE IInv'
  OBVIOUS
<1>1. CASE UNCHANGED vars
  <2>1. \A p \in Process, id \in MessageId :
           /\ Holds(p, id)' <=> Holds(p, id)
           /\ Waits(p, id)' <=> Waits(p, id)
           /\ Initiating(id, p)' <=> Initiating(id, p)
           /\ Certifying(id, p)' <=> Certifying(id, p)
           /\ Signing(id)' = Signing(id)
           /\ Count(id)' = Count(id)
           /\ Certified(id)' <=> Certified(id)
    BY <1>1 DEF vars, Holds, Waits, Initiating, Certifying, Signing, Count, Certified
  <2>2. Typed' /\ Routed'
    BY <1>1 DEF vars, IInv, Typed, Routed
  <2>3. Unstarted' /\ Arriving' /\ HeldOnce' /\ Counted' /\ Quorate'
    BY <1>1, <2>1, Sources
    DEF vars, IInv, Unstarted, Arriving, HeldOnce, Counted, Quorate
  <2>4. BeforeCertificate' /\ AfterCertificate' /\ MessageOnItsWay'
    BY <1>1, <2>1
    DEF vars, IInv, Typed, BeforeCertificate, AfterCertificate, MessageOnItsWay
  <2> QED
    BY <2>2, <2>3, <2>4 DEF IInv
<1>2. CASE Next
  BY <1>2, StartKeeps, CertificateKeeps, InitiateKeeps, SignatureKeeps DEF Next, Receive
<1> QED
  BY <1>1, <1>2

LEMMA Invariant == Spec => []IInv
  BY InitInvariant, StepInvariant, PTL DEF Spec

-----------------------------------------------------------------------------
\* What follows.

(***************************************************************************)
(* The type invariant: a process waits for the message or the certificate, *)
(* never for both, counts no more signatures than there are processes, and *)
(* delivers no message twice.                                              *)
(***************************************************************************)
THEOREM TypeCorrect == Spec => []TypeOK
<1>1. IInv => TypeOK
  <2> SUFFICES ASSUME IInv PROVE TypeOK
    OBVIOUS
  <2>1. network \subseteq BCBMessage
    <3>1. \A id \in MessageId, p \in Process :
             {Initiate(id, p), Signature(id, p), Certificate(id, p)} \subseteq BCBMessage
      BY Sources DEF Initiate, Signature, Certificate, Send, BCBMessage
    <3> QED
      BY <3>1 DEF IInv, Typed, Routed
  <2>2. \A p \in Process : \A id \in DOMAIN messages[p] :
           messages[p][id] <= IF id.process_id = p THEN Cardinality(Process) ELSE 0
    <3>1. SUFFICES ASSUME NEW p \in Process, NEW id \in DOMAIN messages[p],
                          id.process_id = p
                   PROVE  messages[p][id] <= Cardinality(Process)
      BY DEF IInv, Typed
    <3>2. /\ id \in MessageId /\ messages[p][id] \in Nat
          /\ messages[p][id] + Cardinality(Signing(id)) = Cardinality(signed[id])
      BY <3>1 DEF IInv, Typed, Counted, Holds, Count
    <3> QED
      BY <3>2, Countable, QuorumFits DEF IInv
  <2> QED
    BY <2>1, <2>2 DEF IInv, Typed, TypeOK
<1> QED
  BY <1>1, Invariant, PTL

(***************************************************************************)
(* When all messages have arrived nothing is kept, in whatever order they  *)
(* came: every certificate has met its message.                            *)
(***************************************************************************)
THEOREM NothingIsKept == Spec => []NothingKept
<1>1. IInv => NothingKept
  <2> SUFFICES ASSUME IInv, network = {}, NEW p \in Process
               PROVE  DOMAIN messages[p] = {} /\ waiting_certificates[p] = {}
    BY DEF NothingKept
  <2>1. \A id \in MessageId, q \in Process :
           ~Initiating(id, q) /\ ~Certifying(id, q) /\ Signing(id) = {}
    BY DEF Initiating, Certifying, Signing
  <2>2. waiting_certificates[p] = {}
    BY <2>1 DEF IInv, Typed, MessageOnItsWay, Waits
  <2>3. ASSUME NEW id \in DOMAIN messages[p]
        PROVE  FALSE
    <3>1. id \in started /\ id \in MessageId /\ Holds(p, id)
      BY <2>3 DEF IInv, Typed, Holds
    <3>2. ~Certified(id)
      BY <2>1, <3>1 DEF IInv, AfterCertificate
    <3>3. signed[id] = Process
      BY <2>1, <3>1, <3>2 DEF IInv, Typed, BeforeCertificate
    <3>4. Holds(id.process_id, id) /\ Count(id) \in Nat /\ ~(Count(id) >= QuorumSize)
      BY <3>1, <3>2, Sources DEF IInv, Typed, Certified, Holds, Count
    <3>5. Count(id) + Cardinality({}) = Cardinality(Process)
      BY <2>1, <3>1, <3>3, <3>4 DEF IInv, Counted
    <3> QED
      BY <3>4, <3>5, QuorumFits, FS_EmptySet
  <2> QED
    BY <2>2, <2>3
<1> QED
  BY <1>1, Invariant, PTL

(***************************************************************************)
(* Consistent broadcast implements CertifiedBroadcast: no process delivers *)
(* a message that less than a quorum has signed, and none signs what was   *)
(* not broadcast.                                                          *)
(***************************************************************************)
THEOREM Refinement == Spec => ImplementsCertified
<1> DEFINE abstractly == [id \in MessageId |-> {p \in Process : delivered[p][id] > 0}]
<1>1. Init => Abstract!Init
  BY DEF Init, Abstract!Init
<1>2. ASSUME IInv, NEW id \in MessageId, NEW p \in Process, delivered[p][id] = 0,
             Cardinality(signed[id]) >= QuorumSize,
             Deliver(p, id), UNCHANGED <<started, signed>>
      PROVE  Abstract!Next
  <2>1. \A i \in MessageId, q \in Process :
           delivered'[q][i] = IF i = id /\ q = p THEN 1 ELSE delivered[q][i]
    BY <1>2 DEF IInv, Typed, Deliver
  <2>2. abstractly' = [abstractly EXCEPT ![id] = @ \cup {p}]
    <3>1. \A i \in MessageId, q \in Process :
             delivered'[q][i] > 0 <=> delivered[q][i] > 0 \/ (i = id /\ q = p)
      BY <2>1
    <3>2. \A i \in MessageId :
             {q \in Process : delivered'[q][i] > 0} =
                IF i = id THEN {q \in Process : delivered[q][i] > 0} \cup {p}
                ELSE {q \in Process : delivered[q][i] > 0}
      BY <3>1
    <3> QED
      BY <3>2
  <2>3. p \notin abstractly[id]
    BY <1>2
  <2>4. \E Q \in {Q \in SUBSET Process : Cardinality(Q) >= QuorumSize} : Q \subseteq signed[id]
    BY <1>2 DEF IInv, Typed
  <2>5. Abstract!Deliver(id, p)
    BY <1>2, <2>2, <2>3, <2>4 DEF Abstract!Deliver
  <2> QED
    BY <2>5 DEF Abstract!Next
<1>3. ASSUME IInv, NEW id \in MessageId, ReliablyBroadcast(id)
      PROVE  Abstract!Next
  <2>1. Abstract!Start(id)
    BY <1>3 DEF ReliablyBroadcast, Abstract!Start
  <2> QED
    BY <2>1 DEF Abstract!Next
<1>4. ASSUME IInv, NEW m \in network, OnCertificate(m)
      PROVE  [Abstract!Next]_(Abstract!vars)
  <2>1. PICK id \in started, p \in Process : m = Certificate(id, p)
    BY <1>4, MessageFields DEF IInv, Routed, OnCertificate
  <2>2. m.id = id /\ m.to = p /\ Certifying(id, p) /\ id \in MessageId
    BY <1>4, <2>1, MessageFields DEF IInv, Typed, Certifying
  <2>3. CASE ~Holds(p, id)
    BY <1>4, <2>2, <2>3 DEF OnCertificate, Holds, Abstract!vars
  <2>4. CASE Holds(p, id)
    <3>1. Deliver(p, id) /\ UNCHANGED <<started, signed>>
      BY <1>4, <2>2, <2>4 DEF OnCertificate, Holds
    <3>2. delivered[p][id] = 0 /\ Cardinality(signed[id]) >= QuorumSize
      BY <1>4, <2>2, <2>4 DEF IInv, HeldOnce, Quorate
    <3> QED
      BY <1>2, <1>4, <2>2, <3>1, <3>2
  <2> QED
    BY <2>3, <2>4
<1>5. ASSUME IInv, NEW m \in network, OnInitiate(m)
      PROVE  [Abstract!Next]_(Abstract!vars)
  <2>1. PICK id \in started, p \in Process : m = Initiate(id, p)
    BY <1>5, MessageFields DEF IInv, Routed, OnInitiate
  <2>2. /\ m.id = id /\ m.to = p /\ Initiating(id, p) /\ id \in MessageId
    BY <1>5, <2>1, MessageFields DEF IInv, Typed, Initiating
  <2>3. CASE p # id.process_id /\ Waits(p, id)
    <3>1. Deliver(p, id) /\ UNCHANGED <<started, signed>>
      BY <1>5, <2>2, <2>3 DEF OnInitiate, Waits
    <3>2. delivered[p][id] = 0 /\ Cardinality(signed[id]) >= QuorumSize
      BY <1>5, <2>2, <2>3 DEF IInv, Arriving, Quorate
    <3> QED
      BY <1>2, <1>5, <2>2, <3>1, <3>2
  <2>4. CASE ~(p # id.process_id /\ Waits(p, id))
    <3>1. /\ signed' = [signed EXCEPT ![id] = @ \cup {p}]
          /\ UNCHANGED <<started, delivered>>
      BY <1>5, <2>2, <2>4 DEF OnInitiate, Waits, StoreAndSign, Sign
    <3>2. p \notin signed[id]
      BY <1>5, <2>2 DEF IInv, Arriving
    <3>3. Abstract!Sign(id, p)
      BY <3>1, <3>2 DEF Abstract!Sign
    <3> QED
      BY <2>2, <3>3 DEF Abstract!Next
  <2> QED
    BY <2>3, <2>4
<1>6. ASSUME NEW m, OnSignature(m)
      PROVE  UNCHANGED Abstract!vars
  BY <1>6 DEF OnSignature, Abstract!vars
<1>7. IInv /\ [Next]_vars => [Abstract!Next]_(Abstract!vars)
  <2>1. UNCHANGED vars => UNCHANGED Abstract!vars
    BY DEF vars, Abstract!vars
  <2> QED
    BY <1>3, <1>4, <1>5, <1>6, <2>1 DEF Next, Receive
<1> QED
  BY <1>1, <1>7, Invariant, PTL DEF Spec, ImplementsCertified, Abstract!Spec
=============================================================================
