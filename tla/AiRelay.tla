------------------------------- MODULE AiRelay -------------------------------
(***************************************************************************)
(* ai_ctrl::analyze hands the question to the language model through       *)
(* a file, _ai_body.json in the working directory: it writes the body,     *)
(* runs curl on the file, removes it and answers with what curl printed.   *)
(* The name is the same for every request, and requests run on several     *)
(* worker threads, so they share the file.                                 *)
(*                                                                         *)
(* The body of a question is written when the stream is closed (it is      *)
(* shorter than the stream's buffer).                                      *)
(***************************************************************************)
EXTENDS Integers, FiniteSets

CONSTANTS
    Workers,
    MaxRequests,    \* bound: requests received
    MaxCrashes      \* bound: crashes

ASSUME BoundsAssumption == {MaxRequests, MaxCrashes} \subseteq Nat

VARIABLES
    windows,    \* the _WIN32 build: an open file cannot be removed
    file,       \* the questions whose bytes _ai_body.json holds, or NoFile
    stream,     \* [Workers -> "closed", "open", or "unlinked": its file was removed]
    pc,         \* [Workers -> Stages]
    question,   \* [Workers -> the request being served, or 0]
    sent,       \* [Workers -> what curl read from the file]
    met,        \* [Workers -> requests that were in progress at the same time]
    answered,   \* requests answered with success: whose question, what was sent, who was met
    received, crashes

vars == <<windows, file, stream, pc, question, sent, met, answered, received, crashes>>

Stages == {"idle", "context", "write", "ask", "remove", "respond"}

NoFile == {-1}
Nothing == {-2}     \* curl could not be started or the model is down: no output

Busy(w) == pc[w] # "idle"

Init ==
    /\ windows \in BOOLEAN
    /\ file = NoFile
    /\ stream = [w \in Workers |-> "closed"]
    /\ pc = [w \in Workers |-> "idle"]
    /\ question = [w \in Workers |-> 0]
    /\ sent = [w \in Workers |-> {}]
    /\ met = [w \in Workers |-> {}]
    /\ answered = {} /\ received = 0 /\ crashes = 0

GoTo(w, stage) == pc' = [pc EXCEPT ![w] = stage]

(* A question arrives; its request runs beside those being served. *)
Receive(w) ==
    /\ ~Busy(w) /\ received < MaxRequests
    /\ received' = received + 1
    /\ question' = [question EXCEPT ![w] = received']
    /\ met' = [v \in Workers |->
                IF v = w THEN {question[u] : u \in {x \in Workers : Busy(x)}}
                ELSE IF Busy(v) THEN met[v] \cup {received'} ELSE met[v]]
    /\ GoTo(w, "context")
    /\ UNCHANGED <<windows, file, stream, sent, answered, crashes>>

(* Faulty variants of the steps below: the stream appends; it is closed without
   a flush, or not at all; the file is removed only after an answer. *)
OpenToAppend(w) ==
    /\ pc[w] = "context"
    /\ file' = IF file = NoFile THEN {} ELSE file
    /\ stream' = [stream EXCEPT ![w] = "open"]
    /\ GoTo(w, "write")
    /\ UNCHANGED <<windows, question, sent, met, answered, received, crashes>>

CloseUnflushed(w) ==
    /\ pc[w] = "write"
    /\ stream' = [stream EXCEPT ![w] = "closed"]
    /\ GoTo(w, "ask")
    /\ UNCHANGED <<windows, file, question, sent, met, answered, received, crashes>>

NeverClose(w) ==
    /\ pc[w] = "write"
    /\ file' = {question[w]}
    /\ GoTo(w, "ask")
    /\ UNCHANGED <<windows, stream, question, sent, met, answered, received, crashes>>

RemoveIfAnswered(w) ==
    /\ pc[w] = "remove"
    /\ IF sent[w] = Nothing THEN UNCHANGED <<file, stream>>
       ELSE /\ file' = NoFile
            /\ stream' = [v \in Workers |-> IF stream[v] = "open" THEN "unlinked" ELSE stream[v]]
    /\ GoTo(w, "respond")
    /\ UNCHANGED <<windows, question, sent, met, answered, received, crashes>>

(* std::ofstream jf("_ai_body.json"): creates the file or truncates it. *)
OpenStream(w) ==
    /\ pc[w] = "context"
    /\ file' = {}
    /\ stream' = [stream EXCEPT ![w] = "open"]
    /\ GoTo(w, "write")
    /\ UNCHANGED <<windows, question, sent, met, answered, received, crashes>>

(* jf.close(): the bytes go to the front of the file the stream was opened on.
   A longer body that is there already keeps its tail. *)
CloseStream(w) ==
    /\ pc[w] = "write"
    /\ \/ stream[w] = "unlinked" /\ UNCHANGED file
       \/ stream[w] = "open" /\ file' = {question[w]}
       \/ stream[w] = "open" /\ file' = file \cup {question[w]}
    /\ stream' = [stream EXCEPT ![w] = "closed"]
    /\ GoTo(w, "ask")
    /\ UNCHANGED <<windows, question, sent, met, answered, received, crashes>>

(* popen: curl reads the file, if there is one, and sends what it read. *)
Ask(w) ==
    /\ pc[w] = "ask"
    /\ \/ sent' = [sent EXCEPT ![w] = IF file = NoFile THEN {} ELSE file]
       \/ sent' = [sent EXCEPT ![w] = Nothing]
    /\ GoTo(w, "remove")
    /\ UNCHANGED <<windows, file, stream, question, met, answered, received, crashes>>

(* std::remove: on Windows it fails while another stream has the file open;
   elsewhere those streams go on writing to a file without a name. *)
Remove(w) ==
    /\ pc[w] = "remove"
    /\ IF windows /\ \E v \in Workers : stream[v] = "open"
       THEN UNCHANGED <<file, stream>>
       ELSE /\ file' = NoFile
            /\ stream' = [v \in Workers |-> IF stream[v] = "open" THEN "unlinked" ELSE stream[v]]
    /\ GoTo(w, "respond")
    /\ UNCHANGED <<windows, question, sent, met, answered, received, crashes>>

(* The answer, or "AI service not started" when there was no output. *)
Respond(w) ==
    /\ pc[w] = "respond"
    /\ answered' = IF sent[w] = Nothing THEN answered
                   ELSE answered \cup {[asked |-> question[w], sent |-> sent[w],
                                        met |-> met[w]]}
    /\ question' = [question EXCEPT ![w] = 0]
    /\ sent' = [sent EXCEPT ![w] = {}]
    /\ met' = [met EXCEPT ![w] = {}]
    /\ GoTo(w, "idle")
    /\ UNCHANGED <<windows, file, stream, received, crashes>>

(* The process dies and is started again; the file stays as it is. *)
Crash ==
    /\ crashes < MaxCrashes /\ crashes' = crashes + 1
    /\ stream' = [w \in Workers |-> "closed"]
    /\ pc' = [w \in Workers |-> "idle"]
    /\ question' = [w \in Workers |-> 0]
    /\ sent' = [w \in Workers |-> {}]
    /\ met' = [w \in Workers |-> {}]
    /\ UNCHANGED <<windows, file, answered, received>>

Serve(w) ==
    \/ Receive(w) \/ OpenStream(w) \/ CloseStream(w) \/ Ask(w)
    \/ Remove(w) \/ Respond(w)

Next == (\E w \in Workers : Serve(w)) \/ Crash

Spec == Init /\ [][Next]_vars

-----------------------------------------------------------------------------
(* Properties *)

Requests == 1 .. MaxRequests

(* Shape of the state. *)
TypeOK ==
    /\ windows \in BOOLEAN
    /\ file = NoFile \/ file \subseteq 1 .. received
    /\ stream \in [Workers -> {"closed", "open", "unlinked"}]
    /\ pc \in [Workers -> Stages]
    /\ question \in [Workers -> 0 .. received]
    /\ \A w \in Workers : /\ Busy(w) <=> question[w] # 0
                          /\ stream[w] # "closed" => pc[w] = "write"
    /\ sent \in [Workers -> {Nothing} \cup SUBSET (1 .. received)]
    /\ met \in [Workers -> SUBSET (1 .. received)]
    /\ answered \subseteq [asked : Requests, sent : SUBSET Requests, met : SUBSET Requests]
    /\ received \in 0 .. MaxRequests /\ crashes \in 0 .. MaxCrashes

(***************************************************************************)
(* What the model is asked for a request is made of that request's body    *)
(* and of the bodies of requests in progress at the same time: an answer   *)
(* may go to the wrong client, but never to one whose request had ended,   *)
(* and a body left behind by a crash or a failed remove is never sent.     *)
(***************************************************************************)
OnlyOfRequestsMet == \A r \in answered : r.sent \subseteq {r.asked} \cup r.met

(* A request that met no other one is answered about its own question. *)
AloneIsRight == \A r \in answered : r.met = {} => r.sent = {r.asked}

(***************************************************************************)
(* The file does not outlive the requests, also where a remove fails: the  *)
(* request whose stream stood in the way removes it later. Only a crash    *)
(* leaves it behind.                                                       *)
(***************************************************************************)
NothingLeftBehind == crashes = 0 /\ (\A w \in Workers : ~Busy(w)) => file = NoFile
=============================================================================
