------------------------ MODULE NetworkAdapterProofs ------------------------
(***************************************************************************)
(* Theorems about NetworkAdapter, for every number of tasks, every queue   *)
(* size and every number of calls.                                         *)
(***************************************************************************)
EXTENDS NetworkAdapter, FiniteSetTheorems, FunctionTheorems, TLAPS

USE DEF PRIO_Q_SERIAL, PRIO_Q_BT, PRIO_Q_OTHERS

(***************************************************************************)
(* Facts about the data the model is built from.                           *)
(***************************************************************************)

\* Every packet goes to one of the three priority queues.
LEMMA PrioOfType == \A t \in Task : PrioOf(t) \in Prio
  BY DEF PrioOf, Prio

\* The packets one call sends are well-formed, and there is at least one.
LEMMA ScriptType == \A t \in Task : Script(t) \in Seq(Kind)
  <1>1. \A a \in Kind : <<a>> \in Seq(Kind)
    OBVIOUS
  <1>2. \A a, b \in Kind : <<a, b>> \in Seq(Kind)
    OBVIOUS
  <1>3. "down" \in Kind /\ "up" \in Kind /\ "hci" \in Kind /\ "frame" \in Kind
    BY DEF Kind
  <1> QED
    BY <1>1, <1>2, <1>3 DEF Script

\* Appending a member of S to a sequence over S gives a sequence over S.
LEMMA AppendType ==
  ASSUME NEW S, NEW s \in Seq(S), NEW x \in S
  PROVE  Append(s, x) \in Seq(S) /\ Len(Append(s, x)) = Len(s) + 1
  OBVIOUS

\* Taking the head of a queue makes it one shorter.
LEMMA TailLength ==
  ASSUME NEW S, NEW s \in Seq(S), s # <<>>
  PROVE  Tail(s) \in Seq(S) /\ Len(Tail(s)) = Len(s) - 1
  OBVIOUS

-----------------------------------------------------------------------------
(* Type correctness *)

\* The initial state is well-typed.
LEMMA InitTypeOK == Init => TypeOK
  <1> SUFFICES ASSUME Init PROVE TypeOK
    OBVIOUS
  <1> USE NetworkAdapterAssumption DEF Init
  <1>1. toHost \in [Prio -> Seq(Packet)] /\ meta \in Seq(Prio)
    OBVIOUS
  <1>2. \A q \in Prio : Len(toHost[q]) <= TO_HOST_QUEUE_SIZE
    OBVIOUS
  <1>3. queueType \in Prio
    BY DEF Prio
  <1>4. datapath \in BOOLEAN /\ ifHandle \in BOOLEAN
    OBVIOUS
  <1>5. /\ script \in [Task -> Seq(Kind)]
        /\ buf \in [Task -> Packet \cup {NoPacket}]
        /\ calls \in [Task -> 0..MaxCalls]
    OBVIOUS
  <1>6. wire \in Seq(Packet \cup {Startup})
    OBVIOUS
  <1> QED
    BY <1>1, <1>2, <1>3, <1>4, <1>5, <1>6 DEF TypeOK

\* Every step keeps the state well-typed.
LEMMA NextTypeOK == TypeOK /\ [Next]_vars => TypeOK'
  <1> SUFFICES ASSUME TypeOK, [Next]_vars PROVE TypeOK'
    OBVIOUS
  <1> USE NetworkAdapterAssumption DEF TypeOK
  <1>1. CASE InterfaceReady
    BY <1>1 DEF InterfaceReady, initVars, hostVars, taskVars, sendVars
  <1>2. CASE StartupEvent
    BY <1>2 DEF StartupEvent, initVars, hostVars, taskVars, sendVars
  <1>3. CASE InitDone
    BY <1>3 DEF InitDone, initVars, hostVars, taskVars, sendVars
  <1>4. CASE OpenDataPath
    BY <1>4 DEF OpenDataPath, HostInterrupt, initVars, hostVars, taskVars, sendVars
  <1>5. CASE CloseDataPath
    <2>1. isr' \in {"idle", "open", "close"}
      BY <1>5 DEF CloseDataPath
    <2>2. probes' \in Nat
      BY <1>5 DEF CloseDataPath, HostInterrupt
    <2>3. datapath' \in BOOLEAN
      BY <1>5 DEF CloseDataPath
    <2> QED
      BY <1>5, <2>1, <2>2, <2>3 DEF CloseDataPath, initVars, taskVars, sendVars
  <1>6. CASE EndOfInterrupt
    <2>1. datapath' \in BOOLEAN /\ ifState' \in {"INIT", "ACTIVE", "DEACTIVE"} /\ isr' = "idle"
      BY <1>6 DEF EndOfInterrupt
    <2> QED
      BY <1>6, <2>1 DEF EndOfInterrupt, initVars, taskVars, sendVars
  <1>7. ASSUME NEW t \in Task, Call(t) PROVE TypeOK'
    BY <1>7, ScriptType DEF Call, initVars, hostVars, taskVars, sendVars
  <1>8. ASSUME NEW t \in Task, Sender(t) PROVE TypeOK'
    <2>1. CASE Compose(t)
      <3> DEFINE todo == script[t]
      <3>0. todo \in Seq(Kind) /\ todo # <<>>
        BY <2>1 DEF Compose
      <3>1. Head(todo) \in Kind /\ Tail(todo) \in Seq(Kind)
        <4> HIDE DEF todo
        <4> QED
          BY <3>0
      <3>2. calls[t] \in 1..MaxCalls
        <4>1. calls[t] \in 0..MaxCalls
          OBVIOUS
        <4>2. calls[t] > 0
          BY <2>1 DEF Compose
        <4> QED
          BY <4>1, <4>2
      <3>3. [kind |-> Head(script[t]), from |-> t, call |-> calls[t]] \in Packet
        BY <3>1, <3>2 DEF Packet
      <3> QED
        BY <2>1, <3>1, <3>3 DEF Compose, initVars, hostVars, sendVars
    <2>2. CASE Skip(t)
      BY <2>2 DEF Skip, initVars, hostVars, sendVars
    <2>3. CASE PushData(t)
      <3>1. buf[t] \in Packet /\ PrioOf(t) \in Prio
        BY <2>3, PrioOfType DEF PushData
      <3>2. toHost' \in [Prio -> Seq(Packet)]
        BY <2>3, <3>1 DEF PushData
      <3>3. \A q \in Prio : Len(toHost[q])' <= TO_HOST_QUEUE_SIZE
        BY <2>3, <3>1 DEF PushData
      <3> QED
        BY <2>3, <3>2, <3>3 DEF PushData, initVars, hostVars, taskVars, sendVars
    <2>4. CASE PushMeta(t)
      <3>1. meta' \in Seq(Prio)
        BY <2>4, PrioOfType DEF PushMeta
      <3> QED
        BY <2>4, <3>1 DEF PushMeta, initVars, hostVars, taskVars, sendVars
    <2> QED
      BY <1>8, <2>1, <2>2, <2>3, <2>4 DEF Sender
  <1>9. CASE SendTask
    <2>1. CASE SendCheck
      BY <2>1 DEF SendCheck, initVars, hostVars, taskVars, sendVars
    <2>2. CASE ReceiveMeta
      BY <2>2 DEF ReceiveMeta, initVars, hostVars, taskVars, sendVars
    <2>3. CASE ReceiveBuf
      <3>1. Head(toHost[queueType]) \in Packet /\ Tail(toHost[queueType]) \in Seq(Packet)
        BY <2>3 DEF ReceiveBuf
      <3>2. Len(Tail(toHost[queueType])) <= TO_HOST_QUEUE_SIZE
        BY <2>3 DEF ReceiveBuf
      <3> QED
        BY <2>3, <3>1, <3>2 DEF ReceiveBuf, initVars, hostVars, taskVars, sendVars
    <2>4. CASE ProcessTx
      BY <2>4 DEF ProcessTx, initVars, hostVars, taskVars, sendVars
    <2>5. CASE Write
      <3>1. wire' \in Seq(Packet \cup {Startup})
        <4> DEFINE Sent == Packet \cup {Startup}
        <4>1. sendBuf \in Sent /\ wire \in Seq(Sent)
          BY <2>5 DEF Write
        <4>2. wire' = wire \/ wire' = Append(wire, sendBuf)
          BY <2>5 DEF Write, Accepted, Refused
        <4>3. Append(wire, sendBuf) \in Seq(Sent)
          <5> HIDE DEF Sent
          <5> QED
            BY <4>1, AppendType
        <4> QED
          BY <4>1, <4>2, <4>3
      <3> QED
        BY <2>5, <3>1 DEF Write, initVars, hostVars, taskVars, sendVars
    <2> QED
      BY <1>9, <2>1, <2>2, <2>3, <2>4, <2>5 DEF SendTask
  <1>10. CASE UNCHANGED vars
    BY <1>10 DEF vars
  <1> QED
    BY <1>1, <1>2, <1>3, <1>4, <1>5, <1>6, <1>7, <1>8, <1>9, <1>10 DEF Next

\* Type correctness of the adapter's state.
THEOREM TypeCorrect == Spec => []TypeOK
  BY InitTypeOK, NextTypeOK, PTL DEF Spec

-----------------------------------------------------------------------------
(***************************************************************************)
(* Counting tokens.  Tok(m, q) are the places of queue q's tokens in the   *)
(* meta queue m, so Tokens(q) is Tok(meta, q).                             *)
(***************************************************************************)
Tok(m, q) == {i \in DOMAIN m : m[i] = q}

\* The places of a queue's tokens are finitely many.
LEMMA TokFinite ==
  ASSUME NEW m \in Seq(Prio), NEW q
  PROVE  IsFiniteSet(Tok(m, q))
  <1>1. DOMAIN m = 1..Len(m) /\ Len(m) \in Nat
    OBVIOUS
  <1>2. IsFiniteSet(1..Len(m))
    BY <1>1, FS_Interval
  <1>3. Tok(m, q) \subseteq 1..Len(m)
    BY <1>1 DEF Tok
  <1> QED
    BY <1>2, <1>3, FS_Subset

\* xQueueSend() on the meta queue adds one token, of the queue it names.
LEMMA TokAppend ==
  ASSUME NEW m \in Seq(Prio), NEW p \in Prio, NEW q \in Prio
  PROVE  Cardinality(Tok(Append(m, p), q))
           = Cardinality(Tok(m, q)) + (IF p = q THEN 1 ELSE 0)
  <1> DEFINE n == Append(m, p)
  <1>1. DOMAIN n = 1..(Len(m) + 1) /\ DOMAIN m = 1..Len(m) /\ Len(m) \in Nat
    OBVIOUS
  <1>2. n[Len(m) + 1] = p /\ \A i \in 1..Len(m) : n[i] = m[i]
    OBVIOUS
  <1>3. CASE p = q
    <2>1. Tok(n, q) = Tok(m, q) \cup {Len(m) + 1}
      BY <1>1, <1>2, <1>3 DEF Tok
    <2>2. Len(m) + 1 \notin Tok(m, q)
      BY <1>1 DEF Tok
    <2>3. Cardinality(Tok(m, q) \cup {Len(m) + 1}) = Cardinality(Tok(m, q)) + 1
      BY <2>2, TokFinite, FS_AddElement
    <2> QED
      BY <1>3, <2>1, <2>3
  <1>4. CASE p # q
    <2>1. Tok(n, q) = Tok(m, q)
      BY <1>1, <1>2, <1>4 DEF Tok
    <2>2. Cardinality(Tok(m, q)) \in Nat
      BY TokFinite, FS_CardinalityType
    <2> QED
      BY <1>4, <2>1, <2>2
  <1> QED
    BY <1>3, <1>4

\* xQueueReceive() on the meta queue removes one token, of the queue at its
\* head; the places of the others move up by one.
LEMMA TokTail ==
  ASSUME NEW m \in Seq(Prio), m # <<>>, NEW q \in Prio
  PROVE  Cardinality(Tok(m, q))
           = Cardinality(Tok(Tail(m), q)) + (IF Head(m) = q THEN 1 ELSE 0)
  <1> DEFINE r == Tail(m)
             S == Tok(r, q)
             T == Tok(m, q) \ {1}
             f == [i \in S |-> i + 1]
  <1>1. /\ r \in Seq(Prio) /\ Len(m) \in Nat \ {0}
        /\ Len(r) = Len(m) - 1 /\ DOMAIN r = 1..(Len(m) - 1) /\ DOMAIN m = 1..Len(m)
    OBVIOUS
  <1>2. \A i \in 1..(Len(m) - 1) : r[i] = m[i + 1]
    OBVIOUS
  <1>3. Head(m) = m[1]
    OBVIOUS
  <1>4. S \subseteq 1..(Len(m) - 1) /\ T \subseteq 2..Len(m)
    BY <1>1 DEF Tok
  <1>5. \A i \in S : i + 1 \in T
    BY <1>1, <1>2, <1>4 DEF Tok
  <1>6. \A j \in T : j - 1 \in S /\ (j - 1) + 1 = j
    <2> SUFFICES ASSUME NEW j \in T PROVE j - 1 \in S /\ (j - 1) + 1 = j
      OBVIOUS
    <2>1. j \in 2..Len(m) /\ m[j] = q
      BY <1>1, <1>4 DEF Tok
    <2>2. j - 1 \in 1..(Len(m) - 1) /\ (j - 1) + 1 = j
      BY <1>1, <2>1
    <2>3. r[j - 1] = q
      BY <1>2, <2>1, <2>2
    <2> QED
      BY <1>1, <2>2, <2>3 DEF Tok
  <1>7. f \in Bijection(S, T)
    <2> HIDE DEF S, T
    <2>1. f \in [S -> T]
      BY <1>5
    <2>2. \A a, b \in S : f[a] = f[b] => a = b
      BY <1>4
    <2>3. \A j \in T : \E i \in S : f[i] = j
      BY <1>6
    <2> QED
      BY <2>1, <2>2, <2>3, Fun_IsBij
  <1>8. IsFiniteSet(S) /\ IsFiniteSet(Tok(m, q))
    BY <1>1, TokFinite
  <1>9. Cardinality(S) = Cardinality(T)
    BY <1>7, <1>8, FS_Bijection DEF ExistsBijection
  <1>10. CASE Head(m) = q
    <2>1. 1 \in Tok(m, q)
      BY <1>1, <1>3, <1>10 DEF Tok
    <2>2. Cardinality(T) = Cardinality(Tok(m, q)) - 1
      BY <1>8, <2>1, FS_RemoveElement
    <2>3. Cardinality(Tok(m, q)) \in Nat
      BY <1>8, FS_CardinalityType
    <2> QED
      BY <1>9, <1>10, <2>2, <2>3
  <1>11. CASE Head(m) # q
    <2>1. T = Tok(m, q)
      BY <1>1, <1>3, <1>11 DEF Tok
    <2>2. Cardinality(Tok(m, q)) \in Nat
      BY <1>8, FS_CardinalityType
    <2>3. Cardinality(S) = Cardinality(Tok(m, q))
      BY <1>9, <2>1
    <2> HIDE DEF S
    <2> QED
      BY <1>11, <2>2, <2>3 DEF S
  <1> QED
    BY <1>10, <1>11

\* Disjoint finite sets add up.
LEMMA DisjointUnion ==
  ASSUME NEW A, NEW B, IsFiniteSet(A), IsFiniteSet(B), A \cap B = {}
  PROVE  /\ IsFiniteSet(A \cup B)
         /\ Cardinality(A \cup B) = Cardinality(A) + Cardinality(B)
  <1>1. /\ IsFiniteSet(A \cup B)
        /\ Cardinality(A \cup B)
             = Cardinality(A) + Cardinality(B) - Cardinality(A \cap B)
    BY FS_Union
  <1>2. Cardinality(A \cap B) = 0
    BY FS_EmptySet
  <1>3. Cardinality(A) \in Nat /\ Cardinality(B) \in Nat
    BY FS_CardinalityType
  <1> QED
    BY <1>1, <1>2, <1>3

\* The meta queue holds nothing but the three queues' tokens.
LEMMA TokTotal ==
  ASSUME NEW m \in Seq(Prio)
  PROVE  Len(m) = Cardinality(Tok(m, PRIO_Q_SERIAL)) + Cardinality(Tok(m, PRIO_Q_BT))
                    + Cardinality(Tok(m, PRIO_Q_OTHERS))
  <1> DEFINE A == Tok(m, PRIO_Q_SERIAL)
             B == Tok(m, PRIO_Q_BT)
             C == Tok(m, PRIO_Q_OTHERS)
  <1>1. DOMAIN m = 1..Len(m) /\ Len(m) \in Nat /\ \A i \in 1..Len(m) : m[i] \in Prio
    OBVIOUS
  <1>2. 1..Len(m) = (A \cup B) \cup C
    BY <1>1 DEF Tok, Prio
  <1>3. A \cap B = {} /\ (A \cup B) \cap C = {}
    BY DEF Tok
  <1>4. IsFiniteSet(A) /\ IsFiniteSet(B) /\ IsFiniteSet(C)
    BY TokFinite
  <1>5. /\ Cardinality(A) \in Nat /\ Cardinality(B) \in Nat /\ Cardinality(C) \in Nat
    BY <1>4, FS_CardinalityType
  <1> HIDE DEF A, B, C
  <1>6. IsFiniteSet(A \cup B) /\ Cardinality(A \cup B) = Cardinality(A) + Cardinality(B)
    BY <1>3, <1>4, DisjointUnion
  <1>7. Cardinality((A \cup B) \cup C) = Cardinality(A \cup B) + Cardinality(C)
    BY <1>3, <1>4, <1>6, DisjointUnion
  <1>8. Cardinality(1..Len(m)) = Len(m)
    <2>1. ASSUME NEW n \in Nat PROVE Cardinality(1..n) = n
      <3>1. Cardinality(1..n) = IF 1 > n THEN 0 ELSE n - 1 + 1
        BY FS_Interval
      <3> QED
        BY <3>1
    <2> QED
      BY <1>1, <2>1
  <1>9. Len(m) = Cardinality(A) + Cardinality(B) + Cardinality(C)
    BY <1>2, <1>6, <1>7, <1>8
  <1> QED
    BY <1>9 DEF A, B, C

-----------------------------------------------------------------------------
(* The two queues agree *)

\* Only finitely many producers are between their two xQueueSend()s.
LEMMA BetweenFinite ==
  ASSUME NEW q
  PROVE  IsFiniteSet(Between(q)) /\ Cardinality(Between(q)) \in Nat
  <1>1. Between(q) \subseteq Task
    BY DEF Between
  <1>2. IsFiniteSet(Between(q))
    BY <1>1, NetworkAdapterAssumption, FS_Subset
  <1> QED
    BY <1>2, FS_CardinalityType

\* At the start both queues are empty and nobody is between them.
LEMMA InitTokenInv == Init => TokenInv
  <1> SUFFICES ASSUME Init, NEW q \in Prio
               PROVE  Len(toHost[q])
                        = Cardinality(Tokens(q)) + Cardinality(Between(q)) + Held(q)
    BY DEF TokenInv
  <1>1. toHost[q] = <<>> /\ Held(q) = 0
    BY DEF Init, Held
  <1>2. Tokens(q) = {}
    BY DEF Init, Tokens
  <1>3. Between(q) = {}
    BY DEF Init, Between
  <1> QED
    BY <1>1, <1>2, <1>3, FS_EmptySet

\* Every step, of a producer or of send_task, keeps the balance.
LEMMA NextTokenInv == TypeOK /\ TokenInv /\ [Next]_vars => TokenInv'
  <1> SUFFICES ASSUME TypeOK, TokenInv, [Next]_vars PROVE TokenInv'
    OBVIOUS
  <1>1. ASSUME UNCHANGED <<toHost, meta>>, \A q \in Prio : Held(q)' = Held(q),
               \A t \in Task : pc'[t] = "meta" <=> pc[t] = "meta"
        PROVE  TokenInv'
    <2>1. \A q \in Prio : Between(q)' = Between(q)
      BY <1>1 DEF Between
    <2>2. \A q \in Prio : Tokens(q)' = Tokens(q)
      BY <1>1 DEF Tokens
    <2> QED
      BY <1>1, <2>1, <2>2 DEF TokenInv
  <1>2. ASSUME UNCHANGED <<toHost, meta, spc, queueType>>,
               \A t \in Task : pc'[t] = "meta" <=> pc[t] = "meta"
        PROVE  TokenInv'
    BY <1>1, <1>2 DEF Held
  <1>3. \A q \in Prio :
            Cardinality(Tokens(q)) \in Nat /\ Cardinality(Between(q)) \in Nat
              /\ Held(q) \in {0, 1} /\ Tokens(q) = Tok(meta, q) /\ Tokens(q)' = Tok(meta', q)
              /\ meta \in Seq(Prio) /\ toHost[q] \in Seq(Packet)
              /\ Len(toHost[q])
                   = Cardinality(Tokens(q)) + Cardinality(Between(q)) + Held(q)
    <2> TAKE q \in Prio
    <2>1. Tokens(q) = Tok(meta, q) /\ Tokens(q)' = Tok(meta', q)
      BY DEF Tokens, Tok
    <2>2. meta \in Seq(Prio) /\ toHost[q] \in Seq(Packet)
      BY DEF TypeOK
    <2>3. IsFiniteSet(Tokens(q))
      BY <2>1, <2>2, TokFinite
    <2> QED
      BY <2>1, <2>2, <2>3, BetweenFinite, FS_CardinalityType DEF Held, TokenInv
  <1>4. CASE InterfaceReady
    BY <1>2, <1>4 DEF InterfaceReady, sendVars
  <1>5. CASE StartupEvent
    BY <1>2, <1>5 DEF StartupEvent, sendVars
  <1>6. CASE InitDone
    BY <1>2, <1>6 DEF InitDone, sendVars
  <1>7. CASE OpenDataPath
    BY <1>2, <1>7 DEF OpenDataPath, sendVars
  <1>8. CASE CloseDataPath
    BY <1>2, <1>8 DEF CloseDataPath, sendVars
  <1>9. CASE EndOfInterrupt
    BY <1>2, <1>9 DEF EndOfInterrupt, sendVars
  <1>10. ASSUME NEW t \in Task, Call(t) PROVE TokenInv'
    BY <1>2, <1>10 DEF Call, sendVars, TypeOK
  <1>11. ASSUME NEW t \in Task, Compose(t) PROVE TokenInv'
    BY <1>2, <1>11 DEF Compose, sendVars, TypeOK
  <1>12. ASSUME NEW t \in Task, Skip(t) PROVE TokenInv'
    BY <1>2, <1>12 DEF Skip, sendVars, TypeOK
  <1>13. ASSUME NEW t \in Task, PushData(t) PROVE TokenInv'
    <2> SUFFICES ASSUME NEW q \in Prio
                 PROVE  Len(toHost'[q]) = Cardinality(Tokens(q)')
                          + Cardinality(Between(q)') + Held(q)'
      BY DEF TokenInv
    <2>1. Tokens(q)' = Tokens(q) /\ Held(q)' = Held(q)
      BY <1>13 DEF PushData, Tokens, Held, sendVars
    <2>2. t \notin Between(q)
      BY <1>13 DEF PushData, Between
    <2>3. CASE PrioOf(t) = q
      <3>1. Between(q)' = Between(q) \cup {t}
        BY <1>13, <2>3 DEF PushData, Between, TypeOK
      <3>2. Cardinality(Between(q)') = Cardinality(Between(q)) + 1
        BY <2>2, <3>1, BetweenFinite, FS_AddElement
      <3>3. buf[t] \in Packet
        BY <1>13 DEF PushData, TypeOK
      <3>4. toHost'[q] = Append(toHost[q], buf[t])
        BY <1>13, <2>3 DEF PushData, TypeOK
      <3>5. Len(toHost'[q]) = Len(toHost[q]) + 1
        <4>1. toHost[q] \in Seq(Packet)
          BY <1>3
        <4>2. Len(Append(toHost[q], buf[t])) = Len(toHost[q]) + 1
          BY <4>1, <3>3, AppendType
        <4> QED
          BY <3>4, <4>2
      <3> QED
        <4> DEFINE c == Cardinality(Tokens(q))
                   b == Cardinality(Between(q))
        <4>1. /\ c \in Nat /\ b \in Nat /\ Held(q) \in {0, 1}
              /\ Len(toHost[q]) = c + b + Held(q)
          BY <1>3
        <4>2. Cardinality(Tokens(q)') = c /\ Cardinality(Between(q)') = b + 1
          BY <2>1, <3>2
        <4> HIDE DEF c, b
        <4> QED
          BY <4>1, <4>2, <2>1, <3>5
    <2>4. CASE PrioOf(t) # q
      <3>1. Between(q)' = Between(q) /\ toHost'[q] = toHost[q]
        BY <1>13, <2>4 DEF PushData, Between, TypeOK
      <3> QED
        BY <1>3, <2>1, <3>1
    <2> QED
      BY <2>3, <2>4
  <1>14. ASSUME NEW t \in Task, PushMeta(t) PROVE TokenInv'
    <2> SUFFICES ASSUME NEW q \in Prio
                 PROVE  Len(toHost'[q]) = Cardinality(Tokens(q)')
                          + Cardinality(Between(q)') + Held(q)'
      BY DEF TokenInv
    <2>1. toHost'[q] = toHost[q] /\ Held(q)' = Held(q)
      BY <1>14 DEF PushMeta, Held, sendVars
    <2>2. Cardinality(Tokens(q)')
            = Cardinality(Tokens(q)) + (IF PrioOf(t) = q THEN 1 ELSE 0)
      <3>1. meta' = Append(meta, PrioOf(t))
        BY <1>14 DEF PushMeta
      <3> QED
        BY <1>3, <3>1, PrioOfType, TokAppend
    <2>3. CASE PrioOf(t) = q
      <3>1. t \in Between(q)
        BY <1>14, <2>3 DEF PushMeta, Between
      <3>2. Between(q)' = Between(q) \ {t}
        BY <1>14 DEF PushMeta, Between, TypeOK
      <3>3. Cardinality(Between(q)') = Cardinality(Between(q)) - 1
        BY <3>1, <3>2, BetweenFinite, FS_RemoveElement
      <3> QED
        BY <1>3, <2>1, <2>2, <2>3, <3>3
    <2>4. CASE PrioOf(t) # q
      <3>1. Between(q)' = Between(q)
        BY <1>14, <2>4 DEF PushMeta, Between, TypeOK
      <3> QED
        BY <1>3, <2>1, <2>2, <2>4, <3>1
    <2> QED
      BY <2>3, <2>4
  <1>15. CASE SendCheck
    <2>1. \A q \in Prio : Held(q)' = Held(q)
      BY <1>15 DEF SendCheck, Held
    <2> QED
      BY <1>1, <1>15, <2>1 DEF SendCheck
  <1>16. CASE ReceiveMeta
    <2> SUFFICES ASSUME NEW q \in Prio
                 PROVE  Len(toHost'[q]) = Cardinality(Tokens(q)')
                          + Cardinality(Between(q)') + Held(q)'
      BY DEF TokenInv
    <2>1. toHost'[q] = toHost[q] /\ Between(q)' = Between(q)
      BY <1>16 DEF ReceiveMeta, Between
    <2>2. Held(q) = 0 /\ Held(q)' = IF Head(meta) = q THEN 1 ELSE 0
      BY <1>16 DEF ReceiveMeta, Held
    <2>3. meta # <<>> /\ meta' = Tail(meta)
      BY <1>16 DEF ReceiveMeta
    <2>4. meta' \in Seq(Prio)
      BY <1>3, <2>3
    <2>5. Cardinality(Tokens(q))
            = Cardinality(Tokens(q)') + (IF Head(meta) = q THEN 1 ELSE 0)
      BY <1>3, <2>3, TokTail
    <2>6. Cardinality(Tokens(q)') \in Nat
      BY <1>3, <2>4, TokFinite, FS_CardinalityType
    <2> QED
      BY <1>3, <2>1, <2>2, <2>5, <2>6
  <1>17. CASE ReceiveBuf
    <2> SUFFICES ASSUME NEW q \in Prio
                 PROVE  Len(toHost'[q]) = Cardinality(Tokens(q)')
                          + Cardinality(Between(q)') + Held(q)'
      BY DEF TokenInv
    <2>1. Tokens(q)' = Tokens(q) /\ Between(q)' = Between(q) /\ Held(q)' = 0
      BY <1>17 DEF ReceiveBuf, Tokens, Between, Held
    <2>2. CASE queueType = q
      <3>1. Held(q) = 1 /\ toHost[q] # <<>>
        BY <1>17, <2>2 DEF ReceiveBuf, Held
      <3>2. toHost'[q] = Tail(toHost[q])
        BY <1>17, <2>2 DEF ReceiveBuf, TypeOK
      <3>3. Len(toHost'[q]) = Len(toHost[q]) - 1
        <4>1. toHost[q] \in Seq(Packet)
          BY <1>3
        <4>2. Len(Tail(toHost[q])) = Len(toHost[q]) - 1
          BY <3>1, <4>1, TailLength
        <4> QED
          BY <3>2, <4>2
      <3> QED
        <4> DEFINE c == Cardinality(Tokens(q))
                   b == Cardinality(Between(q))
        <4>1. c \in Nat /\ b \in Nat /\ Len(toHost[q]) = c + b + Held(q)
          BY <1>3
        <4>2. Cardinality(Tokens(q)') = c /\ Cardinality(Between(q)') = b
          BY <2>1
        <4> HIDE DEF c, b
        <4> QED
          BY <4>1, <4>2, <2>1, <3>1, <3>3
    <2>3. CASE queueType # q
      <3>1. Held(q) = 0 /\ toHost'[q] = toHost[q]
        BY <1>17, <2>3 DEF ReceiveBuf, Held, TypeOK
      <3> QED
        BY <1>3, <2>1, <3>1
    <2> QED
      BY <2>2, <2>3
  <1>18. CASE ProcessTx
    <2>1. \A q \in Prio : Held(q)' = Held(q)
      BY <1>18 DEF ProcessTx, Held
    <2> QED
      BY <1>1, <1>18, <2>1 DEF ProcessTx
  <1>19. CASE Write
    <2>1. \A q \in Prio : Held(q)' = Held(q)
      BY <1>19 DEF Write, Held
    <2> QED
      BY <1>1, <1>19, <2>1 DEF Write
  <1>20. CASE UNCHANGED vars
    BY <1>2, <1>20 DEF vars
  <1> QED
    BY <1>4, <1>5, <1>6, <1>7, <1>8, <1>9, <1>10, <1>11, <1>12, <1>13, <1>14, <1>15, <1>16,
       <1>17, <1>18, <1>19, <1>20 DEF Next, Sender, SendTask

IInv == TypeOK /\ TokenInv

\* The inductive invariant: well-typed, and tokens match packets.
LEMMA Inductive == Spec => []IInv
  <1>1. Init => IInv
    BY InitTypeOK, InitTokenInv DEF IInv
  <1>2. IInv /\ [Next]_vars => IInv'
    BY NextTypeOK, NextTokenInv DEF IInv
  <1> QED
    BY <1>1, <1>2, PTL DEF Spec

\* Every packet in a priority queue has its token in the meta queue, or in
\* the hands of the task that has yet to send or has just received it.
THEOREM TokensMatchPackets == Spec => []TokenInv
  BY Inductive, PTL DEF IInv

\* send_task never finds the queue that a token names empty.
THEOREM TokensFindPackets == Spec => []TokenFindsPacket
  <1>1. IInv => TokenFindsPacket
    <2> SUFFICES ASSUME IInv, spc = "buf" PROVE toHost[queueType] # <<>>
      BY DEF TokenFindsPacket
    <2>1. queueType \in Prio /\ Held(queueType) = 1
      BY DEF IInv, TypeOK, Held
    <2>2. Len(toHost[queueType])
            = Cardinality(Tokens(queueType)) + Cardinality(Between(queueType)) + 1
      BY <2>1 DEF IInv, TokenInv
    <2>3. Tokens(queueType) = Tok(meta, queueType) /\ meta \in Seq(Prio)
      BY DEF IInv, TypeOK, Tokens, Tok
    <2>4. Cardinality(Tokens(queueType)) \in Nat
      BY <2>3, TokFinite, FS_CardinalityType
    <2>5. Len(toHost[queueType]) # 0
      BY <2>2, <2>4, BetweenFinite
    <2> QED
      BY <2>5
  <1> QED
    BY <1>1, Inductive, PTL

\* No producer waits at the meta queue for room: MetaQueueSize suffices.
THEOREM NoWaitForMeta == Spec => []MetaNeverFull
  <1>1. IInv => MetaNeverFull
    <2> SUFFICES ASSUME IInv, NEW t \in Task, pc[t] = "meta" PROVE Len(meta) < MetaQueueSize
      BY DEF MetaNeverFull
    <2> DEFINE tok(q) == Cardinality(Tok(meta, q))
               btw(q) == Cardinality(Between(q))
    <2>1. meta \in Seq(Prio) /\ TO_HOST_QUEUE_SIZE \in Nat
      BY NetworkAdapterAssumption DEF IInv, TypeOK
    <2>2. \A q \in Prio : /\ tok(q) \in Nat /\ btw(q) \in Nat
                          /\ tok(q) + btw(q) <= TO_HOST_QUEUE_SIZE
      <3> TAKE q \in Prio
      <3>1. tok(q) \in Nat
        BY <2>1, TokFinite, FS_CardinalityType
      <3>2. btw(q) \in Nat
        BY BetweenFinite
      <3>3. Len(toHost[q]) <= TO_HOST_QUEUE_SIZE
        BY DEF IInv, TypeOK
      <3>4. Len(toHost[q]) = tok(q) + btw(q) + Held(q)
        BY DEF IInv, TokenInv, Tokens, Tok
      <3>5. Held(q) \in {0, 1}
        BY DEF Held
      <3> QED
        BY <2>1, <3>1, <3>2, <3>3, <3>4, <3>5
    <2>3. btw(PrioOf(t)) > 0
      <3>1. t \in Between(PrioOf(t))
        BY DEF Between
      <3>2. btw(PrioOf(t)) # 0
        BY <3>1, BetweenFinite, FS_EmptySet
      <3> QED
        BY <3>2, BetweenFinite
    <2>4. Len(meta) = tok(PRIO_Q_SERIAL) + tok(PRIO_Q_BT) + tok(PRIO_Q_OTHERS)
      BY <2>1, TokTotal
    <2>5. \A q \in Prio : q = PRIO_Q_SERIAL \/ q = PRIO_Q_BT \/ q = PRIO_Q_OTHERS
      BY DEF Prio
    <2>6. tok(PrioOf(t)) < TO_HOST_QUEUE_SIZE
      BY <2>1, <2>2, <2>3, PrioOfType
    <2> HIDE DEF tok, btw
    <2>7. Len(meta) < TO_HOST_QUEUE_SIZE * 3
      <3>1. /\ PRIO_Q_SERIAL \in Prio /\ PRIO_Q_BT \in Prio /\ PRIO_Q_OTHERS \in Prio
            /\ PrioOf(t) \in Prio
        BY PrioOfType DEF Prio
      <3>2. \A q \in Prio : tok(q) \in Nat /\ tok(q) <= TO_HOST_QUEUE_SIZE
        BY <2>1, <2>2
      <3>3. /\ tok(PRIO_Q_SERIAL) \in Nat /\ tok(PRIO_Q_SERIAL) <= TO_HOST_QUEUE_SIZE
            /\ tok(PRIO_Q_BT) \in Nat /\ tok(PRIO_Q_BT) <= TO_HOST_QUEUE_SIZE
            /\ tok(PRIO_Q_OTHERS) \in Nat /\ tok(PRIO_Q_OTHERS) <= TO_HOST_QUEUE_SIZE
        BY <3>1, <3>2
      <3>4. \/ tok(PRIO_Q_SERIAL) < TO_HOST_QUEUE_SIZE
            \/ tok(PRIO_Q_BT) < TO_HOST_QUEUE_SIZE
            \/ tok(PRIO_Q_OTHERS) < TO_HOST_QUEUE_SIZE
        BY <2>5, <2>6, <3>1
      <3> QED
        BY <2>1, <2>4, <3>3, <3>4
    <2> QED
      BY <2>7 DEF MetaQueueSize
  <1> QED
    BY <1>1, Inductive, PTL

\* The accounting of the to-host queues: packets, tokens and the tasks between
\* two queue operations always add up, so that send_to_host_queue()
\* and send_task never wait half-way through a packet.
THEOREM QueuesStayInStep == Spec => []QueuesInStep
  <1>1. TokenInv /\ MetaNeverFull /\ TokenFindsPacket => QueuesInStep
    BY DEF QueuesInStep
  <1> QED
    BY <1>1, TokensMatchPackets, NoWaitForMeta, TokensFindPackets, PTL

-----------------------------------------------------------------------------
(* The adapter implements the host channel *)

\* Nothing in hand: the channel is the queue.
LEMMA ConcatNothing ==
  ASSUME NEW S, NEW s \in Seq(S)
  PROVE  <<>> \o s = s
  OBVIOUS

\* A packet in hand is the head of its channel.
LEMMA ConcatOne ==
  ASSUME NEW S, NEW x \in S, NEW s \in Seq(S)
  PROVE  /\ <<x>> \o s # <<>>
         /\ Head(<<x>> \o s) = x
         /\ Tail(<<x>> \o s) = s
  OBVIOUS

\* Taking a packet in hand does not change the channel.
LEMMA ConcatHeadTail ==
  ASSUME NEW S, NEW s \in Seq(S), s # <<>>
  PROVE  Head(s) \in S /\ <<Head(s)>> \o Tail(s) = s
  OBVIOUS

\* Queueing behind the packet in hand extends the channel.
LEMMA ConcatAppend ==
  ASSUME NEW S, NEW r \in Seq(S), NEW s \in Seq(S), NEW x \in S
  PROVE  r \o Append(s, x) = Append(r \o s, x)
  OBVIOUS

(***************************************************************************)
(* What the refinement needs beside TypeOK: nothing moves towards the bus  *)
(* before the startup event is on it, and SPI's data path is never closed. *)
(***************************************************************************)
Quiet ==
    /\ \A t \in Task : pc[t] \in {"idle", "compose"} /\ (t \in BtTasks => pc[t] = "idle")
    /\ \A q \in Prio : toHost[q] = <<>>
    /\ spc \notin {"process", "write"}

StartInv ==
    /\ transport = "SPI" => datapath
    /\ wire = <<>> <=> initStep \in {"driver", "waiting"}
    /\ wire = <<>> => Quiet

\* Before anything is sent the adapter is quiet.
LEMMA InitStartInv == Init => StartInv
  BY DEF Init, StartInv, Quiet

\* No step sends before the startup event.
LEMMA NextStartInv == TypeOK /\ StartInv /\ [Next]_vars => StartInv'
  <1> SUFFICES ASSUME TypeOK, StartInv, [Next]_vars PROVE StartInv'
    OBVIOUS
  <1> USE DEF StartInv, Quiet
  <1>1. wire \in Seq(Packet \cup {Startup})
    BY DEF TypeOK
  <1>2. CASE InterfaceReady
    BY <1>2 DEF InterfaceReady, sendVars
  <1>3. CASE StartupEvent
    <2>1. wire' # <<>>
      BY <1>1, <1>3 DEF StartupEvent
    <2> QED
      BY <1>3, <2>1 DEF StartupEvent
  <1>4. CASE InitDone
    BY <1>4 DEF InitDone
  <1>5. CASE OpenDataPath
    BY <1>5 DEF OpenDataPath, initVars, sendVars
  <1>6. CASE CloseDataPath
    BY <1>6 DEF CloseDataPath, HostInterrupt, initVars, sendVars
  <1>7. CASE EndOfInterrupt
    BY <1>7 DEF EndOfInterrupt, initVars, sendVars
  <1>8. ASSUME NEW t \in Task, Call(t) PROVE StartInv'
    BY <1>8 DEF Call, initVars, sendVars, TypeOK
  <1>9. ASSUME NEW t \in Task, Compose(t) PROVE StartInv'
    <2>1. wire # <<>>
      BY <1>9 DEF Compose, MaySend, init_done
    <2> QED
      BY <1>9, <2>1 DEF Compose, initVars
  <1>10. ASSUME NEW t \in Task, Skip(t) PROVE StartInv'
    BY <1>10 DEF Skip, initVars, sendVars, TypeOK
  <1>11. ASSUME NEW t \in Task, PushData(t) PROVE StartInv'
    <2>1. wire # <<>>
      BY <1>11 DEF PushData
    <2> QED
      BY <1>11, <2>1 DEF PushData, initVars
  <1>12. ASSUME NEW t \in Task, PushMeta(t) PROVE StartInv'
    <2>1. wire # <<>>
      BY <1>12 DEF PushMeta
    <2> QED
      BY <1>12, <2>1 DEF PushMeta, initVars
  <1>13. CASE SendCheck
    BY <1>13 DEF SendCheck, initVars
  <1>14. CASE ReceiveMeta
    BY <1>14 DEF ReceiveMeta, initVars
  <1>15. CASE ReceiveBuf
    <2>1. wire # <<>>
      BY <1>15 DEF ReceiveBuf, TypeOK
    <2> QED
      BY <1>15, <2>1 DEF ReceiveBuf, initVars
  <1>16. CASE ProcessTx
    BY <1>16 DEF ProcessTx, initVars
  <1>17. CASE Write
    <2>1. wire # <<>>
      BY <1>17 DEF Write
    <2>2. Append(wire, sendBuf) # <<>>
      BY <1>1
    <2>3. wire' # <<>>
      BY <1>17, <2>1, <2>2 DEF Write, Accepted, Refused
    <2> QED
      BY <1>17, <2>1, <2>3 DEF Write, initVars
  <1>18. CASE UNCHANGED vars
    BY <1>18 DEF vars
  <1> QED
    BY <1>2, <1>3, <1>4, <1>5, <1>6, <1>7, <1>8, <1>9, <1>10, <1>11, <1>12, <1>13, <1>14,
       <1>15, <1>16, <1>17, <1>18 DEF Next, Sender, SendTask

(***************************************************************************)
(* One step of the adapter is one step of the channel, or none.  ch is the *)
(* channel under the refinement mapping.                                   *)
(***************************************************************************)
ch == [q \in Prio |-> InHand(q) \o toHost[q]]

\* The adapter starts as a channel does.
LEMMA InitRefines == Init => Channel!Init
  <1> SUFFICES ASSUME Init PROVE Channel!Init
    OBVIOUS
  <1>1. \A q \in Prio : InHand(q) \o toHost[q] = <<>>
    BY DEF Init, InHand
  <1>2. (transport = "SDIO") \in BOOLEAN /\ wire = <<>>
    BY DEF Init
  <1> QED
    BY <1>1, <1>2 DEF Channel!Init

\* Every step of the adapter is a step of the channel or leaves it unchanged.
LEMMA NextRefines ==
  TypeOK /\ StartInv /\ [Next]_vars => [Channel!Next]_(Channel!vars)
  <1> SUFFICES ASSUME TypeOK, StartInv, [Next]_vars
               PROVE  Channel!Next \/ UNCHANGED Channel!vars
    OBVIOUS
  <1>1. \A q \in Prio : toHost[q] \in Seq(Packet) /\ InHand(q) \in Seq(Packet)
    BY DEF TypeOK, InHand
  <1>2. ASSUME UNCHANGED <<transport, toHost, wire>>, \A q \in Prio : InHand(q)' = InHand(q)
        PROVE  UNCHANGED Channel!vars
    BY <1>2 DEF Channel!vars
  <1>3. CASE InterfaceReady
    BY <1>2, <1>3 DEF InterfaceReady, sendVars, InHand
  <1>4. CASE StartupEvent
    <2>1. wire = <<>> /\ wire' = <<Startup>>
      BY <1>4 DEF StartupEvent, StartInv
    <2>2. UNCHANGED <<transport, ch>>
      BY <1>4 DEF StartupEvent, sendVars, ch, InHand
    <2>3. Channel!Announce
      BY <2>1, <2>2 DEF Channel!Announce, ch
    <2> QED
      BY <2>3 DEF Channel!Next
  <1>5. CASE InitDone
    BY <1>2, <1>5 DEF InitDone, sendVars, InHand
  <1>6. CASE OpenDataPath
    BY <1>2, <1>6 DEF OpenDataPath, initVars, sendVars, InHand
  <1>7. CASE CloseDataPath
    BY <1>2, <1>7 DEF CloseDataPath, initVars, sendVars, InHand
  <1>8. CASE EndOfInterrupt
    BY <1>2, <1>8 DEF EndOfInterrupt, initVars, sendVars, InHand
  <1>9. ASSUME NEW t \in Task, Call(t) PROVE UNCHANGED Channel!vars
    BY <1>2, <1>9 DEF Call, initVars, sendVars, InHand
  <1>10. ASSUME NEW t \in Task, Compose(t) PROVE UNCHANGED Channel!vars
    BY <1>2, <1>10 DEF Compose, initVars, sendVars, InHand
  <1>11. ASSUME NEW t \in Task, Skip(t) PROVE UNCHANGED Channel!vars
    BY <1>2, <1>11 DEF Skip, initVars, sendVars, InHand
  <1>12. ASSUME NEW t \in Task, PushData(t) PROVE Channel!Next
    <2> DEFINE c == PrioOf(t)
    <2>1. c \in Prio /\ buf[t] \in Packet
      BY <1>12, PrioOfType DEF PushData, TypeOK
    <2>2. wire # <<>>
      BY <1>12 DEF PushData, StartInv, Quiet
    <2>3. \A q \in Prio : InHand(q)' = InHand(q)
      BY <1>12 DEF PushData, sendVars, InHand
    <2>4. InHand(c) \o Append(toHost[c], buf[t]) = Append(InHand(c) \o toHost[c], buf[t])
      BY <1>1, <2>1, ConcatAppend
    <2>5. toHost' = [toHost EXCEPT ![c] = Append(@, buf[t])] /\ UNCHANGED <<transport, wire>>
      BY <1>12 DEF PushData, initVars
    <2>6. ch' = [ch EXCEPT ![c] = Append(@, buf[t])]
      BY <2>1, <2>3, <2>4, <2>5 DEF ch, TypeOK
    <2>7. PICK q \in Prio, p \in Packet : q = c /\ p = buf[t]
      BY <2>1
    <2>8. Channel!Accept(q, p)
      BY <2>2, <2>5, <2>6, <2>7 DEF Channel!Accept, ch
    <2> QED
      BY <2>8 DEF Channel!Next
  <1>13. ASSUME NEW t \in Task, PushMeta(t) PROVE UNCHANGED Channel!vars
    BY <1>2, <1>13 DEF PushMeta, initVars, sendVars, InHand
  <1>14. CASE SendCheck
    BY <1>2, <1>14 DEF SendCheck, initVars, InHand
  <1>15. CASE ReceiveMeta
    BY <1>2, <1>15 DEF ReceiveMeta, initVars, InHand
  <1>16. CASE ReceiveBuf
    <2>1. /\ queueType \in Prio /\ toHost[queueType] # <<>>
          /\ sendBuf' = Head(toHost[queueType])
          /\ toHost' = [toHost EXCEPT ![queueType] = Tail(@)]
          /\ UNCHANGED <<transport, queueType, wire>>
      BY <1>16 DEF ReceiveBuf, initVars, TypeOK
    <2>2. <<Head(toHost[queueType])>> \o Tail(toHost[queueType]) = toHost[queueType]
      BY <1>1, <2>1, ConcatHeadTail
    <2>3. \A q \in Prio : InHand(q) = <<>>
      BY <1>16 DEF ReceiveBuf, InHand
    <2>4. \A q \in Prio :
              InHand(q)' = IF queueType = q THEN <<Head(toHost[queueType])>> ELSE <<>>
      BY <1>16 DEF ReceiveBuf, InHand
    <2>5. \A q \in Prio : <<>> \o toHost[q] = toHost[q]
      BY <1>1, ConcatNothing
    <2>6. \A q \in Prio : (InHand(q) \o toHost[q])' = InHand(q) \o toHost[q]
      <3> TAKE q \in Prio
      <3>1. CASE queueType = q
        BY <2>1, <2>2, <2>3, <2>4, <2>5, <3>1 DEF TypeOK
      <3>2. CASE queueType # q
        BY <2>1, <2>3, <2>4, <3>2 DEF TypeOK
      <3> QED
        BY <3>1, <3>2
    <2> QED
      BY <2>1, <2>6 DEF Channel!vars
  <1>17. ASSUME spc \in {"process", "write"}, spc' = "check", UNCHANGED <<queueType, toHost>>
         PROVE  /\ queueType \in Prio /\ ch[queueType] # <<>>
                /\ Head(ch[queueType]) = sendBuf
                /\ ch' = [ch EXCEPT ![queueType] = Tail(@)]
    <2>1. queueType \in Prio /\ sendBuf \in Packet /\ InHand(queueType) = <<sendBuf>>
      BY <1>17 DEF TypeOK, InHand
    <2>2. ch[queueType] = <<sendBuf>> \o toHost[queueType]
      BY <2>1 DEF ch
    <2>3. /\ <<sendBuf>> \o toHost[queueType] # <<>>
          /\ Head(<<sendBuf>> \o toHost[queueType]) = sendBuf
          /\ Tail(<<sendBuf>> \o toHost[queueType]) = toHost[queueType]
      BY <1>1, <2>1, ConcatOne
    <2>4. \A q \in Prio : InHand(q)' = <<>>
      BY <1>17 DEF InHand
    <2>5. \A q \in Prio : q # queueType => InHand(q) = <<>>
      BY DEF InHand
    <2>6. \A q \in Prio : <<>> \o toHost[q] = toHost[q]
      BY <1>1, ConcatNothing
    <2>7. ch' = [q \in Prio |-> toHost[q]]
      BY <1>17, <2>4, <2>6 DEF ch
    <2>8. \A q \in Prio : toHost[q] = [ch EXCEPT ![queueType] = Tail(@)][q]
      <3> TAKE q \in Prio
      <3>1. CASE q = queueType
        BY <2>1, <2>2, <2>3, <3>1 DEF ch
      <3>2. CASE q # queueType
        BY <2>5, <2>6, <3>2 DEF ch
      <3> QED
        BY <3>1, <3>2
    <2>9. ch' = [ch EXCEPT ![queueType] = Tail(@)]
      BY <2>7, <2>8 DEF ch
    <2> QED
      BY <2>1, <2>2, <2>3, <2>9
  <1>18. ASSUME transport = "SDIO", UNCHANGED <<transport, wire>>,
                queueType \in Prio, ch[queueType] # <<>>,
                ch' = [ch EXCEPT ![queueType] = Tail(@)]
         PROVE  Channel!Next
    <2>1. PICK q \in Prio : q = queueType
      BY <1>18
    <2>2. Channel!Discard(q)
      BY <1>18, <2>1 DEF Channel!Discard, ch
    <2> QED
      BY <2>2 DEF Channel!Next
  <1>19. CASE ProcessTx
    <2>1. CASE datapath
      BY <1>2, <1>19, <2>1 DEF ProcessTx, initVars, InHand
    <2>2. CASE ~datapath
      <3>1. transport = "SDIO"
        BY <2>2 DEF StartInv, TypeOK
      <3>2. spc = "process" /\ spc' = "check" /\ UNCHANGED <<queueType, toHost>>
        BY <1>19, <2>2 DEF ProcessTx
      <3>3. UNCHANGED <<transport, wire>>
        BY <1>19 DEF ProcessTx, initVars
      <3> QED
        BY <1>17, <1>18, <3>1, <3>2, <3>3
    <2> QED
      BY <2>1, <2>2 DEF TypeOK
  <1>20. CASE Write
    <2>1. spc = "write" /\ spc' = "check" /\ UNCHANGED <<queueType, toHost, transport>>
      BY <1>20 DEF Write, initVars
    <2>2. CASE Accepted
      <3>1. wire' = Append(wire, Head(ch[queueType]))
        BY <1>17, <2>1, <2>2 DEF Accepted
      <3>2. PICK q \in Prio : q = queueType
        BY <1>17, <2>1
      <3>3. Channel!Deliver(q)
        BY <1>17, <2>1, <3>1, <3>2 DEF Channel!Deliver, ch
      <3> QED
        BY <3>3 DEF Channel!Next
    <2>3. CASE Refused
      BY <1>17, <1>18, <2>1, <2>3 DEF Refused
    <2> QED
      BY <1>20, <2>2, <2>3 DEF Write
  <1>21. CASE UNCHANGED vars
    BY <1>2, <1>21 DEF vars, InHand
  <1> QED
    BY <1>3, <1>4, <1>5, <1>6, <1>7, <1>8, <1>9, <1>10, <1>11, <1>12, <1>13, <1>14, <1>15,
       <1>16, <1>19, <1>20, <1>21 DEF Next, Sender, SendTask

\* The adapter implements the host channel: in every class packets leave in
\* the order they were queued, once, after the startup event, and over SPI
\* none is lost.
THEOREM Refinement == Spec => ImplementsHostChannel
  <1>1. Init => TypeOK /\ StartInv
    BY InitTypeOK, InitStartInv
  <1>2. TypeOK /\ StartInv /\ [Next]_vars => (TypeOK /\ StartInv)'
    BY NextTypeOK, NextStartInv
  <1> QED
    BY <1>1, <1>2, InitRefines, NextRefines, PTL
       DEF Spec, ImplementsHostChannel, Channel!Spec

-----------------------------------------------------------------------------
(* Nobody waits on everybody *)

\* A producer that waits for room in its priority queue
Waiting(t) == pc[t] = "data" /\ Len(toHost[PrioOf(t)]) >= TO_HOST_QUEUE_SIZE

\* Another producer can make its second send, or send_task its next step, each
\* for what that step waits for; or send_task waits for the data path to open.
SomeoneProceeds ==
    \/ \E u \in Task : pc[u] = "meta" /\ Len(meta) < MetaQueueSize
    \/ spc = "meta" /\ meta # <<>>
    \/ spc = "buf" /\ toHost[queueType] # <<>>
    \/ spc \in {"process", "write"}
    \/ spc = "check" /\ initStep # "driver" /\ datapath

NoCircularWait ==
    \A t \in Task : Waiting(t) => SomeoneProceeds \/ (transport = "SDIO" /\ spc = "check" /\ ~datapath)

\* With no token in the queue or in hand, a packet in a queue has its producer
\* at the second of its two sends.
LEMMA SomeoneBetween ==
  ASSUME IInv, meta = <<>>, spc # "buf", NEW q \in Prio, Len(toHost[q]) # 0
  PROVE  \E u \in Task : pc[u] = "meta"
  <1>1. Tokens(q) = {}
    BY DEF Tokens
  <1>2. Held(q) = 0
    BY DEF Held
  <1>3. Cardinality(Between(q)) # 0
    <2>1. Len(toHost[q]) = Cardinality(Tokens(q)) + Cardinality(Between(q)) + Held(q)
      BY DEF IInv, TokenInv
    <2>2. Cardinality(Tokens(q)) = 0
      BY <1>1, FS_EmptySet
    <2>3. Cardinality(Between(q)) \in Nat
      BY BetweenFinite
    <2> QED
      BY <1>2, <2>1, <2>2, <2>3
  <1>4. Between(q) # {}
    BY <1>3, FS_EmptySet
  <1> QED
    BY <1>4 DEF Between

\* A producer blocked for ever by xQueueSend(portMAX_DELAY) is blocked by the
\* closed data path of SDIO alone: producers and send_task, who wait for each
\* other on four queues, never all wait (send_to_host_queue(), send_task()).
THEOREM NobodyWaitsOnAll == Spec => []NoCircularWait
  <1>1. IInv /\ StartInv /\ MetaNeverFull /\ TokenFindsPacket => NoCircularWait
    <2> SUFFICES ASSUME IInv, StartInv, MetaNeverFull, TokenFindsPacket, NEW t \in Task, Waiting(t)
                 PROVE  SomeoneProceeds \/ (transport = "SDIO" /\ spc = "check" /\ ~datapath)
      BY DEF NoCircularWait
    <2>1. PrioOf(t) \in Prio /\ Len(toHost[PrioOf(t)]) # 0
      BY PrioOfType, NetworkAdapterAssumption DEF Waiting
    <2>2. spc \in {"check", "meta", "buf", "process", "write"}
      BY DEF IInv, TypeOK
    <2>3. CASE spc = "check"
      <3>1. initStep # "driver"
        BY DEF StartInv, Quiet, Waiting
      <3>2. datapath \in BOOLEAN /\ transport \in {"SPI", "SDIO"} /\ (transport = "SPI" => datapath)
        BY DEF IInv, TypeOK, StartInv
      <3> QED
        BY <2>3, <3>1, <3>2 DEF SomeoneProceeds
    <2>4. CASE spc = "meta" /\ meta = <<>>
      <3>1. PICK u \in Task : pc[u] = "meta"
        BY <2>1, <2>4, SomeoneBetween
      <3> QED
        BY <3>1 DEF SomeoneProceeds, MetaNeverFull
    <2>5. CASE spc = "meta" /\ meta # <<>>
      BY <2>5 DEF SomeoneProceeds
    <2>6. CASE spc = "buf"
      BY <2>6 DEF SomeoneProceeds, TokenFindsPacket
    <2>7. CASE spc \in {"process", "write"}
      BY <2>7 DEF SomeoneProceeds
    <2> QED
      BY <2>2, <2>3, <2>4, <2>5, <2>6, <2>7
  <1>2. Spec => []StartInv
    <2>1. Init => TypeOK /\ StartInv
      BY InitTypeOK, InitStartInv
    <2>2. TypeOK /\ StartInv /\ [Next]_vars => (TypeOK /\ StartInv)'
      BY NextTypeOK, NextStartInv
    <2> QED
      BY <2>1, <2>2, PTL DEF Spec
  <1> QED
    BY <1>1, <1>2, Inductive, NoWaitForMeta, TokensFindPackets, PTL
=============================================================================
