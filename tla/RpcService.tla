----------------------------- MODULE RpcService -----------------------------
(***************************************************************************)
(* What Dci_RpcRun promises its callers (the error codes of dci.h): each   *)
(* request of a call reaches a server at most once; a call is attempted    *)
(* for all of its jobs or for none; and the error of a job tells whether   *)
(* its request was executed, was not and will not be, or may be, even      *)
(* after the call has returned.                                            *)
(***************************************************************************)
EXTENDS Integers

CONSTANTS Threads, MaxRuns, MaxJobs

Jobs     == 1..MaxJobs
Requests == Threads \X (1..MaxRuns) \X Jobs
Outcomes == {"none", "done", "notsent", "noconn", "unknown"}

VARIABLES
    phase,      \* of a thread: "idle", "running", or "returned"
    ncall,      \* its calls so far
    njob,       \* the jobs of its call
    outcome,    \* what its call tells it of the jobs
    sent,       \* requests of the calls in progress that were sent
    pending,    \* requests a server may still execute
    executed

serviceVars == <<phase, ncall, njob, outcome, sent, pending, executed>>

Request(t, j) == <<t, ncall[t], j>>

ServiceInit ==
    /\ phase = [t \in Threads |-> "idle"]
    /\ ncall = [t \in Threads |-> 0]
    /\ njob = [t \in Threads |-> 0]
    /\ outcome = [t \in Threads |-> [j \in Jobs |-> "none"]]
    /\ sent = {} /\ pending = {} /\ executed = {}

Call(t) ==
    /\ phase[t] = "idle" /\ ncall[t] < MaxRuns
    /\ phase' = [phase EXCEPT ![t] = "running"]
    /\ ncall' = [ncall EXCEPT ![t] = @ + 1]
    /\ \E n \in Jobs : njob' = [njob EXCEPT ![t] = n]
    /\ UNCHANGED <<outcome, sent, pending, executed>>

\* A request leaves once; it may be lost on the way.
Send(t, j) ==
    /\ phase[t] = "running" /\ j <= njob[t] /\ Request(t, j) \notin sent
    /\ sent' = sent \cup {Request(t, j)}
    /\ \E S \in {{}, {Request(t, j)}} : pending' = pending \cup S
    /\ UNCHANGED <<phase, ncall, njob, outcome, executed>>

Execute(q) ==
    /\ q \in pending
    /\ pending' = pending \ {q}
    /\ executed' = executed \cup {q}
    /\ UNCHANGED <<phase, ncall, njob, outcome, sent>>

Lose ==
    /\ \E S \in SUBSET pending : pending' = S
    /\ UNCHANGED <<phase, ncall, njob, outcome, sent, executed>>

\* The errors a call may end with.
Truthful(t, o) ==
    /\ \A j \in Jobs : (o[j] = "none") <=> (j > njob[t])
    /\ \A j \in 1..njob[t] :
          /\ o[j] = "done" => Request(t, j) \in executed
          /\ o[j] \in {"notsent", "noconn"} => Request(t, j) \notin sent
          /\ o[j] = "noconn" => \A k \in 1..njob[t] : o[k] = "noconn"

Finish(t) ==
    /\ phase[t] = "running"
    /\ \E o \in [Jobs -> Outcomes] :
          Truthful(t, o) /\ outcome' = [outcome EXCEPT ![t] = o]
    /\ phase' = [phase EXCEPT ![t] = "returned"]
    /\ UNCHANGED <<ncall, njob, sent, pending, executed>>

Return(t) ==
    /\ phase[t] = "returned"
    /\ phase' = [phase EXCEPT ![t] = "idle"]
    /\ njob' = [njob EXCEPT ![t] = 0]
    /\ outcome' = [outcome EXCEPT ![t] = [j \in Jobs |-> "none"]]
    /\ sent' = {q \in sent : q[1] # t}
    /\ UNCHANGED <<ncall, pending, executed>>

ServiceNext ==
    \/ \E t \in Threads : \/ Call(t) \/ Finish(t) \/ Return(t)
                          \/ \E j \in Jobs : Send(t, j)
    \/ \E q \in pending : Execute(q)
    \/ Lose

ServiceSpec == ServiceInit /\ [][ServiceNext]_serviceVars

=============================================================================
