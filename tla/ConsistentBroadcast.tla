------------------------ MODULE ConsistentBroadcast ------------------------
(***************************************************************************)
(* struct ByzantineConsistentBroadcast (crates/bullshark/src/              *)
(* consistent_broadcast.rs), which carries the vertices of Bullshark, over *)
(* links that deliver every message in any order.                          *)
(***************************************************************************)
EXTENDS Naturals, FiniteSets

CONSTANTS
    Process,
    MessageId  \* of the messages that may be broadcast

ASSUME ConsistentBroadcastAssumption ==
    /\ IsFiniteSet(Process) /\ Process # {}
    /\ MessageId \subseteq [process_id : Process, message_id : Nat]

VARIABLES
    started,   \* the ids that are in use
    messages,  \* of a process: message id -> signatures counted
    waiting_certificates,
    network,   \* enum BCBMessage, on its way; a certificate and an Initiate
               \* go out once, and so does an answer to an Initiate
    signed,    \* history: who has sent a signature for a message
    delivered  \* history: how often on_message returned a message

vars == <<started, messages, waiting_certificates, network, signed, delivered>>

BCBMessage == [type : {"Initiate", "Signature", "Certificate"},
               id : MessageId, from : Process, to : Process]

QuorumSize == 2 * ((Cardinality(Process) - 1) \div 3) + 1

Send(type, id, p, q) == [type |-> type, id |-> id, from |-> p, to |-> q]

Broadcast(type, id, p) == {Send(type, id, p, q) : q \in Process}

Put(f, id, n) == [i \in DOMAIN f \cup {id} |-> IF i = id THEN n ELSE f[i]]

Remove(f, id) == [i \in DOMAIN f \ {id} |-> f[i]]

\* A process waits for the message or for its certificate, never for both,
\* counts the signatures of its own messages only, and delivers no message
\* twice.
TypeOK ==
    /\ started \subseteq MessageId
    /\ waiting_certificates \in [Process -> SUBSET started]
    /\ \A p \in Process :
          /\ DOMAIN messages[p] \subseteq started \ waiting_certificates[p]
          /\ \A id \in DOMAIN messages[p] :
                messages[p][id] <= IF id.process_id = p THEN Cardinality(Process) ELSE 0
    /\ network \subseteq BCBMessage
    /\ signed \in [MessageId -> SUBSET Process]
    /\ delivered \in [Process -> [MessageId -> 0 .. 1]]

Init ==
    /\ started = {}
    /\ messages = [p \in Process |-> <<>>]
    /\ waiting_certificates = [p \in Process |-> {}]
    /\ network = {}
    /\ signed = [id \in MessageId |-> {}]
    /\ delivered = [p \in Process |-> [id \in MessageId |-> 0]]

\* fn reliably_broadcast
ReliablyBroadcast(id) ==
    LET p == id.process_id IN
    /\ id \notin started
    /\ started' = started \cup {id}
    /\ messages' = [messages EXCEPT ![p] = Put(@, id, 0)]
    /\ network' = network \cup Broadcast("Initiate", id, p)
    /\ UNCHANGED <<waiting_certificates, signed, delivered>>

Deliver(p, id) == delivered' = [delivered EXCEPT ![p][id] = @ + 1]

\* on_message, Certificate: it may come before the message.
OnCertificate(m) ==
    LET p == m.to IN
    /\ m.type = "Certificate"
    /\ network' = network \ {m}
    /\ \/ /\ m.id \notin DOMAIN messages[p]
          /\ waiting_certificates' = [waiting_certificates EXCEPT ![p] = @ \cup {m.id}]
          /\ UNCHANGED <<messages, delivered>>
       \/ /\ m.id \in DOMAIN messages[p]
          /\ messages' = [messages EXCEPT ![p] = Remove(@, m.id)]
          /\ Deliver(p, m.id)
          /\ UNCHANGED waiting_certificates
    /\ UNCHANGED <<started, signed>>

\* A signature for the message that m brings.
Sign(m) ==
    /\ network' = (network \ {m}) \cup {Send("Signature", m.id, m.to, m.from)}
    /\ signed' = [signed EXCEPT ![m.id] = @ \cup {m.to}]

StoreAndSign(m) ==
    /\ messages' = [messages EXCEPT ![m.to] = Put(@, m.id, 0)]
    /\ Sign(m)
    /\ UNCHANGED <<started, waiting_certificates, delivered>>

\* Faulty: a certificate that is already here is not looked for.
OnInitiateUnchecked(m) ==
    /\ m.type = "Initiate"
    /\ \/ /\ m.id.process_id = m.to
          /\ Sign(m)
          /\ UNCHANGED <<started, messages, waiting_certificates, delivered>>
       \/ /\ m.id.process_id # m.to
          /\ StoreAndSign(m)

\* on_message, Initiate: a process has its own message, signs it, too, and
\* does not sign where the certificate is already here.
OnInitiate(m) ==
    /\ m.type = "Initiate"
    /\ \/ /\ m.id.process_id = m.to
          /\ Sign(m)
          /\ UNCHANGED <<started, messages, waiting_certificates, delivered>>
       \/ /\ m.id.process_id # m.to
          /\ m.id \in waiting_certificates[m.to]
          /\ waiting_certificates' = [waiting_certificates EXCEPT ![m.to] = @ \ {m.id}]
          /\ Deliver(m.to, m.id)
          /\ network' = network \ {m}
          /\ UNCHANGED <<started, messages, signed>>
       \/ /\ m.id.process_id # m.to
          /\ m.id \notin waiting_certificates[m.to]
          /\ StoreAndSign(m)

\* Faulty: with every signature beyond the quorum the certificate goes again.
CertifiesAtLeast(n) == n >= QuorumSize

\* Faulty: one signature less.
CertifiesEarly(n) == n = QuorumSize - 1

\* The n-th signature completes the certificate.
Certifies(n) == n = QuorumSize

\* on_message, Signature: late ones find no message.
OnSignature(m) ==
    LET p == m.to
        n == messages[p][m.id] + 1 IN
    /\ m.type = "Signature"
    /\ \/ /\ m.id \notin DOMAIN messages[p]
          /\ network' = network \ {m}
          /\ UNCHANGED messages
       \/ /\ m.id \in DOMAIN messages[p]
          /\ messages' = [messages EXCEPT ![p][m.id] = n]
          /\ network' = (network \ {m})
                \cup (IF Certifies(n) THEN Broadcast("Certificate", m.id, p) ELSE {})
    /\ UNCHANGED <<started, waiting_certificates, signed, delivered>>

Receive == \E m \in network : OnCertificate(m) \/ OnInitiate(m) \/ OnSignature(m)

Next == (\E id \in MessageId : ReliablyBroadcast(id)) \/ Receive

Spec == Init /\ [][Next]_vars

\* Every message on its way arrives.
FairSpec == Spec /\ WF_vars(Receive)

-----------------------------------------------------------------------------
\* Properties.

\* When all messages have arrived nothing is kept: no message waits for its
\* certificate and no certificate for its message, in whatever order Initiate,
\* late Signature and Certificate came.
NothingKept ==
    network = {} =>
        \A p \in Process : DOMAIN messages[p] = {} /\ waiting_certificates[p] = {}

\* What is broadcast is delivered by every process, exactly once, also where
\* the certificate overtakes the message.
EventuallyDelivered ==
    \A id \in MessageId, p \in Process :
        id \in started ~> [](delivered[p][id] = 1)

Abstract ==
    INSTANCE CertifiedBroadcast
    WITH Quorum <- {Q \in SUBSET Process : Cardinality(Q) >= QuorumSize},
         signers <- signed,
         delivered <- [id \in MessageId |-> {p \in Process : delivered[p][id] > 0}]

\* No process delivers a message that less than a quorum has signed, and none
\* signs what was not broadcast: CertifiedBroadcast.
ImplementsCertified == Abstract!Spec
=============================================================================
