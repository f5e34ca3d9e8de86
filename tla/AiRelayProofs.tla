--------------------------- MODULE AiRelayProofs ---------------------------
(***************************************************************************)
(* Proofs about AiRelay, for every set of workers and every bound.         *)
(***************************************************************************)
EXTENDS AiRelay, TLAPS

-----------------------------------------------------------------------------
(* Shape of the state. A stream that is open was opened on the file that    *)
(* has the name: TypeOK alone does not say so, and without it closing a     *)
(* stream could bring back a file that was removed.                         *)

OpenIsNamed == \A w \in Workers : stream[w] = "open" => file # NoFile

TypeInv == TypeOK /\ OpenIsNamed

LEMMA TypeInit == Init => TypeInv
  BY BoundsAssumption
  DEF Init, TypeInv, TypeOK, OpenIsNamed, NoFile, Busy, Stages

LEMMA TypeReceive ==
    ASSUME TypeInv, NEW w \in Workers, Receive(w)
    PROVE  TypeInv'
  <1> USE DEF TypeInv
  <1>1. received' = received + 1 /\ received \in Nat /\ received' \in 0 .. MaxRequests
    BY BoundsAssumption DEF Receive, TypeOK
  <1>2. (1 .. received) \subseteq 1 .. received' /\ received' \in 1 .. received'
    BY <1>1
  <1>3. question' \in [Workers -> 0 .. received'] /\ question'[w] # 0
    BY <1>1, <1>2 DEF Receive, TypeOK
  <1>4. met' \in [Workers -> SUBSET (1 .. received')]
    <2>1. ASSUME NEW v \in Workers, Busy(v)
          PROVE  question[v] \in 1 .. received
      BY <2>1, <1>1 DEF TypeOK
    <2>2. {question[u] : u \in {x \in Workers : Busy(x)}} \subseteq 1 .. received
      BY <2>1
    <2>3. \A v \in Workers : met[v] \subseteq 1 .. received
      BY DEF TypeOK
    <2> QED BY <1>2, <2>2, <2>3 DEF Receive
  <1>5. pc' \in [Workers -> Stages] /\ pc'[w] = "context"
    BY DEF Receive, GoTo, TypeOK, Stages
  <1>6. \A v \in Workers : /\ Busy(v)' <=> question'[v] # 0
                           /\ stream'[v] # "closed" => pc'[v] = "write"
    BY <1>2, <1>3, <1>5 DEF Receive, GoTo, TypeOK, Busy
  <1>8. sent' \in [Workers -> {Nothing} \cup SUBSET (1 .. received')]
    BY <1>2 DEF Receive, TypeOK
  <1>7. (file = NoFile \/ file \subseteq 1 .. received') /\ OpenIsNamed'
    BY <1>2 DEF Receive, TypeOK, OpenIsNamed
  <1> QED BY <1>1, <1>3, <1>4, <1>5, <1>6, <1>7, <1>8 DEF Receive, TypeOK

LEMMA TypeStep == TypeInv /\ [Next]_vars => TypeInv'
  <1> SUFFICES ASSUME TypeInv, [Next]_vars
               PROVE  TypeInv'
    OBVIOUS
  <1>1. CASE UNCHANGED vars
    BY <1>1 DEF vars, TypeInv, TypeOK, OpenIsNamed, Busy
  <1>2. ASSUME NEW w \in Workers, Receive(w) PROVE TypeInv'
    BY <1>2, TypeReceive
  <1>3. ASSUME NEW w \in Workers, OpenStream(w) PROVE TypeInv'
    BY <1>3 DEF OpenStream, GoTo, TypeInv, TypeOK, OpenIsNamed, Busy, Stages, NoFile
  <1>4. ASSUME NEW w \in Workers, CloseStream(w) PROVE TypeInv'
    <2>1. question[w] \in 1 .. received
      BY <1>4 DEF CloseStream, TypeInv, TypeOK, Busy
    <2>2. file' = file \/ (file' \subseteq 1 .. received /\ file' # NoFile)
      BY <2>1, <1>4 DEF CloseStream, TypeInv, TypeOK, OpenIsNamed, NoFile
    <2> QED BY <2>2, <1>4 DEF CloseStream, GoTo, TypeInv, TypeOK, OpenIsNamed, Busy, Stages
  <1>5. ASSUME NEW w \in Workers, Ask(w) PROVE TypeInv'
    <2>1. sent' \in [Workers -> {Nothing} \cup SUBSET (1 .. received)]
      BY <1>5 DEF Ask, TypeInv, TypeOK
    <2> QED BY <2>1, <1>5 DEF Ask, GoTo, TypeInv, TypeOK, OpenIsNamed, Busy, Stages
  <1>6. ASSUME NEW w \in Workers, Remove(w) PROVE TypeInv'
    BY <1>6 DEF Remove, GoTo, TypeInv, TypeOK, OpenIsNamed, Busy, Stages
  <1>7. ASSUME NEW w \in Workers, Respond(w) PROVE TypeInv'
    <2>1. (1 .. received) \subseteq Requests /\ question[w] \in Requests
      BY <1>7, BoundsAssumption DEF Respond, TypeInv, TypeOK, Requests, Busy
    <2>2. answered' \subseteq [asked : Requests, sent : SUBSET Requests, met : SUBSET Requests]
      BY <2>1, <1>7 DEF Respond, TypeInv, TypeOK
    <2> QED BY <2>2, <1>7 DEF Respond, GoTo, TypeInv, TypeOK, OpenIsNamed, Busy, Stages
  <1>8. CASE Crash
    BY <1>8, BoundsAssumption
    DEF Crash, TypeInv, TypeOK, OpenIsNamed, Busy, Stages
  <1> QED BY <1>1, <1>2, <1>3, <1>4, <1>5, <1>6, <1>7, <1>8 DEF Next, Serve

(* The state keeps its shape, and a stream is open only on the named file. *)
LEMMA TypeInvariant == Spec => []TypeInv
  BY TypeInit, TypeStep, PTL DEF Spec

(* The relay's state keeps its shape. *)
THEOREM TypeCorrect == Spec => []TypeOK
  <1>1. TypeInv => TypeOK
    BY DEF TypeInv
  <1> QED BY <1>1, TypeInvariant, PTL

-----------------------------------------------------------------------------
(* The inductive invariant of the answers.                                 *)

(* The question of a request and those of the requests it met. *)
Own(w) == {question[w]} \cup met[w]

(* Of two requests in progress each has met the other. *)
Mutual ==
    \A u, v \in Workers : u # v /\ Busy(u) /\ Busy(v) => question[u] \in met[v]

(* From the moment a request has truncated the file until curl has read it, the
   file holds only its question and those of the requests it met. *)
FileOfThoseMet ==
    \A w \in Workers : pc[w] \in {"write", "ask"} => file = NoFile \/ file \subseteq Own(w)

(* What curl has sent for a request. *)
SentOfThoseMet ==
    \A w \in Workers :
        pc[w] \in {"remove", "respond"} => sent[w] = Nothing \/ sent[w] \subseteq Own(w)

(* A request that has met nobody has the file for itself. *)
FileOfAlone ==
    \A w \in Workers :
        met[w] = {} => /\ pc[w] = "write" => stream[w] = "open" /\ file = {}
                       /\ pc[w] = "ask" => file = {question[w]}

SentOfAlone ==
    \A w \in Workers :
        met[w] = {} /\ pc[w] \in {"remove", "respond"} => sent[w] \in {Nothing, {question[w]}}

(* While there has been no crash, a file is there only as long as some request
   is going to remove it. *)
SomeoneRemoves ==
    crashes = 0 /\ file # NoFile => \E w \in Workers : pc[w] \in {"write", "ask", "remove"}

RelayInv ==
    /\ Mutual
    /\ FileOfThoseMet /\ SentOfThoseMet /\ OnlyOfRequestsMet
    /\ FileOfAlone /\ SentOfAlone /\ AloneIsRight

Inductive == TypeInv /\ RelayInv /\ SomeoneRemoves

LEMMA InductiveInit == Init => RelayInv /\ SomeoneRemoves
  BY DEF Init, RelayInv, Mutual, FileOfThoseMet, SentOfThoseMet, OnlyOfRequestsMet,
         FileOfAlone, SentOfAlone, AloneIsRight, SomeoneRemoves, Busy

(* While a request that has met nobody is served, every other worker is idle. *)
LEMMA AloneMeansNobody ==
    ASSUME TypeInv, Mutual, NEW w \in Workers, Busy(w), met[w] = {},
           NEW v \in Workers, v # w
    PROVE  ~Busy(v)
  BY DEF Mutual

LEMMA RelayReceive ==
    ASSUME TypeInv, RelayInv, NEW w \in Workers, Receive(w)
    PROVE  RelayInv'
  <1> USE DEF TypeInv, RelayInv
  <1>1. /\ question' \in [Workers -> Int] /\ met' \in [Workers -> SUBSET Int]
        /\ \A v \in Workers : v # w => question'[v] = question[v] /\ pc'[v] = pc[v]
        /\ pc'[w] = "context" /\ ~Busy(w)
        /\ \A v \in Workers : Busy(v) => met[v] \subseteq met'[v] /\ question'[w] \in met'[v]
        /\ \A v \in Workers : ~Busy(v) /\ v # w => met'[v] = met[v]
        /\ \A v \in Workers : Busy(v) => question[v] \in met'[w]
    BY DEF Receive, GoTo, TypeOK
  <1>2. Mutual'
    BY <1>1 DEF Mutual, Busy
  <1>3. \A v \in Workers : v # w /\ Busy(v) => Own(v) \subseteq Own(v)'
    BY <1>1 DEF Own
  <1>4. FileOfThoseMet' /\ SentOfThoseMet'
    BY <1>1, <1>3 DEF FileOfThoseMet, SentOfThoseMet, Receive, Busy
  <1>5. FileOfAlone' /\ SentOfAlone'
    BY <1>1 DEF FileOfAlone, SentOfAlone, Receive, Busy
  <1>6. OnlyOfRequestsMet' /\ AloneIsRight'
    BY DEF OnlyOfRequestsMet, AloneIsRight, Receive
  <1> QED BY <1>2, <1>4, <1>5, <1>6

LEMMA RelayOpenStream ==
    ASSUME TypeInv, RelayInv, NEW w \in Workers, OpenStream(w)
    PROVE  RelayInv'
  <1> USE DEF TypeInv, RelayInv
  <1>1. /\ pc' \in [Workers -> Stages] /\ pc'[w] = "write" /\ pc[w] = "context"
        /\ \A v \in Workers : v # w => pc'[v] = pc[v] /\ stream'[v] = stream[v]
        /\ stream'[w] = "open" /\ file' = {}
        /\ UNCHANGED <<question, sent, met, answered>>
    BY DEF OpenStream, GoTo, TypeOK, Stages
  <1>2. Mutual'
    BY <1>1 DEF Mutual, Busy
  <1>3. FileOfThoseMet' /\ SentOfThoseMet'
    BY <1>1 DEF FileOfThoseMet, SentOfThoseMet, Own
  <1>4. FileOfAlone' /\ SentOfAlone'
    <2>1. \A v \in Workers : v # w /\ Busy(v) => met[v] # {}
      BY <1>1, AloneMeansNobody DEF Busy
    <2> QED BY <1>1, <2>1 DEF FileOfAlone, SentOfAlone, Busy
  <1>5. OnlyOfRequestsMet' /\ AloneIsRight'
    BY <1>1 DEF OnlyOfRequestsMet, AloneIsRight
  <1> QED BY <1>2, <1>3, <1>4, <1>5

LEMMA RelayCloseStream ==
    ASSUME TypeInv, RelayInv, NEW w \in Workers, CloseStream(w)
    PROVE  RelayInv'
  <1> USE DEF TypeInv, RelayInv
  <1>1. /\ pc' \in [Workers -> Stages] /\ pc'[w] = "ask" /\ pc[w] = "write"
        /\ \A v \in Workers : v # w => pc'[v] = pc[v] /\ stream'[v] = stream[v]
        /\ UNCHANGED <<question, sent, met, answered>>
        /\ \/ stream[w] = "unlinked" /\ file' = file
           \/ /\ stream[w] = "open" /\ file # NoFile
              /\ file' = {question[w]} \/ file' = file \cup {question[w]}
    BY DEF CloseStream, GoTo, TypeOK, OpenIsNamed, Stages
  <1>2. Mutual'
    BY <1>1 DEF Mutual, Busy
  <1>3. \A v \in Workers : Busy(v) => question[w] \in Own(v)
    BY <1>1 DEF Mutual, Own, Busy
  <1>4. FileOfThoseMet' /\ SentOfThoseMet'
    BY <1>1, <1>3 DEF FileOfThoseMet, SentOfThoseMet, Own, Busy
  <1>5. FileOfAlone' /\ SentOfAlone'
    <2>1. \A v \in Workers : v # w /\ Busy(v) => met[v] # {}
      BY <1>1, AloneMeansNobody DEF Busy
    <2> QED BY <1>1, <2>1 DEF FileOfAlone, SentOfAlone, Busy
  <1>6. OnlyOfRequestsMet' /\ AloneIsRight'
    BY <1>1 DEF OnlyOfRequestsMet, AloneIsRight
  <1> QED BY <1>2, <1>4, <1>5, <1>6

LEMMA RelayAsk ==
    ASSUME TypeInv, RelayInv, NEW w \in Workers, Ask(w)
    PROVE  RelayInv'
  <1> USE DEF TypeInv, RelayInv
  <1>1. /\ pc' \in [Workers -> Stages] /\ pc'[w] = "remove" /\ pc[w] = "ask"
        /\ \A v \in Workers : v # w => pc'[v] = pc[v] /\ sent'[v] = sent[v]
        /\ UNCHANGED <<file, stream, question, met, answered>>
        /\ sent'[w] \in {IF file = NoFile THEN {} ELSE file, Nothing}
    BY DEF Ask, GoTo, TypeOK, Stages
  <1>2. Mutual'
    BY <1>1 DEF Mutual, Busy
  <1>3. FileOfThoseMet' /\ SentOfThoseMet'
    BY <1>1 DEF FileOfThoseMet, SentOfThoseMet, Own
  <1>4. FileOfAlone' /\ SentOfAlone'
    <2>1. met[w] = {} => file # NoFile
      <3>1. question[w] \in 0 .. received /\ received \in Nat
        BY DEF TypeOK
      <3> QED BY <1>1, <3>1 DEF FileOfAlone, NoFile
    <2> QED BY <1>1, <2>1 DEF FileOfAlone, SentOfAlone
  <1>5. OnlyOfRequestsMet' /\ AloneIsRight'
    BY <1>1 DEF OnlyOfRequestsMet, AloneIsRight
  <1> QED BY <1>2, <1>3, <1>4, <1>5

LEMMA RelayRemove ==
    ASSUME TypeInv, RelayInv, NEW w \in Workers, Remove(w)
    PROVE  RelayInv'
  <1> USE DEF TypeInv, RelayInv
  <1>1. /\ pc' \in [Workers -> Stages] /\ pc'[w] = "respond" /\ pc[w] = "remove"
        /\ \A v \in Workers : v # w => pc'[v] = pc[v]
        /\ UNCHANGED <<sent, question, met, answered>>
        /\ file' = NoFile \/ UNCHANGED <<file, stream>>
    BY DEF Remove, GoTo, TypeOK, Stages
  <1>2. Mutual'
    BY <1>1 DEF Mutual, Busy
  <1>3. FileOfThoseMet' /\ SentOfThoseMet'
    BY <1>1 DEF FileOfThoseMet, SentOfThoseMet, Own
  <1>4. FileOfAlone' /\ SentOfAlone'
    <2>1. \A v \in Workers : v # w /\ Busy(v) => met[v] # {}
      BY <1>1, AloneMeansNobody DEF Busy
    <2> QED BY <1>1, <2>1 DEF FileOfAlone, SentOfAlone, Busy
  <1>5. OnlyOfRequestsMet' /\ AloneIsRight'
    BY <1>1 DEF OnlyOfRequestsMet, AloneIsRight
  <1> QED BY <1>2, <1>3, <1>4, <1>5

LEMMA RelayRespond ==
    ASSUME TypeInv, RelayInv, NEW w \in Workers, Respond(w)
    PROVE  RelayInv'
  <1> USE DEF TypeInv, RelayInv
  <1>1. /\ pc' \in [Workers -> Stages] /\ pc'[w] = "idle" /\ pc[w] = "respond"
        /\ \A v \in Workers : v # w => /\ pc'[v] = pc[v] /\ sent'[v] = sent[v]
                                       /\ question'[v] = question[v] /\ met'[v] = met[v]
        /\ UNCHANGED <<file, stream>>
        /\ \A r \in answered' \ answered :
               /\ sent[w] # Nothing
               /\ r = [asked |-> question[w], sent |-> sent[w], met |-> met[w]]
    BY DEF Respond, GoTo, TypeOK, Stages
  <1>2. Mutual'
    BY <1>1 DEF Mutual, Busy
  <1>3. FileOfThoseMet' /\ SentOfThoseMet'
    BY <1>1 DEF FileOfThoseMet, SentOfThoseMet, Own
  <1>4. FileOfAlone' /\ SentOfAlone'
    BY <1>1 DEF FileOfAlone, SentOfAlone
  <1>5. OnlyOfRequestsMet' /\ AloneIsRight'
    BY <1>1 DEF OnlyOfRequestsMet, AloneIsRight, SentOfThoseMet, SentOfAlone, Own
  <1> QED BY <1>2, <1>3, <1>4, <1>5

(* Each step keeps the answers within the requests met. *)
LEMMA RelayStep == TypeInv /\ RelayInv /\ [Next]_vars => RelayInv'
  <1> SUFFICES ASSUME TypeInv, RelayInv, [Next]_vars
               PROVE  RelayInv'
    OBVIOUS
  <1>1. CASE UNCHANGED vars
    BY <1>1 DEF vars, RelayInv, Mutual, FileOfThoseMet, SentOfThoseMet,
                OnlyOfRequestsMet, FileOfAlone, SentOfAlone, AloneIsRight, Busy, Own
  <1>2. CASE Crash
    BY <1>2 DEF Crash, RelayInv, Mutual, FileOfThoseMet, SentOfThoseMet,
                OnlyOfRequestsMet, FileOfAlone, SentOfAlone, AloneIsRight, Busy
  <1> QED BY <1>1, <1>2, RelayReceive, RelayOpenStream, RelayCloseStream, RelayAsk,
             RelayRemove, RelayRespond DEF Next, Serve

(* Each step leaves somebody to remove the file. *)
LEMMA RemoverStep == TypeInv /\ SomeoneRemoves /\ [Next]_vars => SomeoneRemoves'
  <1> SUFFICES ASSUME TypeInv, SomeoneRemoves, [Next]_vars
               PROVE  SomeoneRemoves'
    OBVIOUS
  <1> USE DEF TypeInv, TypeOK, SomeoneRemoves, GoTo, Stages
  <1>1. CASE UNCHANGED vars
    BY <1>1 DEF vars
  <1>2. ASSUME NEW w \in Workers, Receive(w) PROVE SomeoneRemoves'
    BY <1>2 DEF Receive, Busy
  <1>3. ASSUME NEW w \in Workers, OpenStream(w) PROVE SomeoneRemoves'
    BY <1>3 DEF OpenStream
  <1>4. ASSUME NEW w \in Workers, CloseStream(w) PROVE SomeoneRemoves'
    BY <1>4 DEF CloseStream
  <1>5. ASSUME NEW w \in Workers, Ask(w) PROVE SomeoneRemoves'
    BY <1>5 DEF Ask
  <1>6. ASSUME NEW w \in Workers, Remove(w) PROVE SomeoneRemoves'
    BY <1>6 DEF Remove
  <1>7. ASSUME NEW w \in Workers, Respond(w) PROVE SomeoneRemoves'
    BY <1>7 DEF Respond
  <1>8. CASE Crash
    BY <1>8, BoundsAssumption DEF Crash
  <1> QED BY <1>1, <1>2, <1>3, <1>4, <1>5, <1>6, <1>7, <1>8 DEF Next, Serve

LEMMA InductiveInvariant == Spec => []Inductive
  <1>1. Init => Inductive
    BY TypeInit, InductiveInit DEF Inductive
  <1>2. Inductive /\ [Next]_vars => Inductive'
    BY TypeStep, RelayStep, RemoverStep DEF Inductive
  <1> QED BY <1>1, <1>2, PTL DEF Spec

-----------------------------------------------------------------------------
(***************************************************************************)
(* ai_ctrl::analyze: whatever the number of threads sharing the file, what *)
(* the language model is sent for a request consists of its own question   *)
(* and of questions that were in progress at the same time. A body left by *)
(* a request that has ended, by a crash or by a failed remove is not sent. *)
(***************************************************************************)
THEOREM NoOldQuestion == Spec => []OnlyOfRequestsMet
  <1>1. Inductive => OnlyOfRequestsMet
    BY DEF Inductive, RelayInv
  <1> QED BY <1>1, InductiveInvariant, PTL

(* A request during which no other one was in progress is answered about its
   own question and no other. *)
THEOREM OwnAnswerWhenAlone == Spec => []AloneIsRight
  <1>1. Inductive => AloneIsRight
    BY DEF Inductive, RelayInv
  <1> QED BY <1>1, InductiveInvariant, PTL

(***************************************************************************)
(* When all requests have ended the file is gone, also on Windows, where   *)
(* std::remove fails while another thread has the file open: that thread   *)
(* removes it. Only a crash leaves it behind.                              *)
(***************************************************************************)
THEOREM FileRemoved == Spec => []NothingLeftBehind
  <1>1. Inductive => NothingLeftBehind
    BY DEF Inductive, SomeoneRemoves, NothingLeftBehind, Busy
  <1> QED BY <1>1, InductiveInvariant, PTL

=============================================================================
