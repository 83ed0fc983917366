----------------------------- MODULE LocustTest -----------------------------
(***************************************************************************)
(* The Locust scale test: the Job whose first Pod runs the master of       *)
(* Locust and the others its workers, which share the users out.           *)
(*   roles/rhods/rhods_notebook_locust_scale_test/files/locust-files/      *)
(*   entrypoint.py, get_leader.py, locust_users.py, locustfile.py          *)
(* Locust itself is external: a worker connects when it can, the master    *)
(* starts the test when it knows one worker (the Job does not set          *)
(* LOCUST_EXPECT_WORKERS) and gives users to any worker that is connected. *)
(***************************************************************************)
EXTENDS Sequences, LocustSession

CONSTANTS
  NWorkers,      \* no Job has more workers
  LeaderRetries, \* `retries` of entrypoint.py
  Sizes          \* LOCUST_USERS, and the workers (parallelism less one)

ASSUME WorkersAssumption ==
  /\ NWorkers \in Nat \ {0}
  /\ LeaderRetries \in Nat \ {0}
  /\ Sizes \subseteq [users : 1 .. MaxUsers, workers : 1 .. NWorkers]

Leader == 0
Workers == 1 .. NWorkers
Pods == Leader .. NWorkers

VARIABLES
  size,    \* the size of the test
  pod,     \* what the container of each Pod does
  looked,  \* how many times a worker has looked for the leader
  status,  \* the exit status of the container, -1 before
  exitFile,    \* what it has written in test.exit_code, -1 before
  clients, \* the workers, in the order the master has met them
  started, \* the test has started
  inbox,   \* the messages test_users on their way to each worker
  ready_,  \* `ready` of locust_users.py
  indexes, \* its user_indexes
  new,     \* a user of the worker is in WorkbenchUser.__init__
  on,      \* the worker a session runs on
  job      \* the Kubernetes Job

pods == <<pod, looked, status, exitFile>>
locust == <<clients, started, inbox, ready_, indexes, new, on>>
locustVars == <<sessionVars, size, pods, locust, job>>

Running(w) == pod[w] = "locust"
Knows(w) == \E i \in DOMAIN clients : clients[i] = w
Live == {u \in Users : pc[u] \notin {"none", "done", "lost"}}
Sessions(w) == {u \in Live : on[u] = w}

LocustTypeOK ==
  /\ SessionTypeOK
  /\ size \in Sizes
  /\ pod \in [Pods -> {"none", "starting", "looking", "locust", "quitting", "over"}]
  /\ looked \in [Workers -> 0 .. LeaderRetries]
  /\ status \in [Pods -> -1 .. 255]
  /\ exitFile \in [Pods -> {-1, 0, 255, 256}]
  /\ clients \in Seq(Workers)
  /\ started \in BOOLEAN
  /\ inbox \in [Workers -> Seq(SUBSET Users)]
  /\ ready_ \in [Workers -> BOOLEAN]
  /\ indexes \in [Workers -> SUBSET Users]
  /\ new \in [Workers -> BOOLEAN]
  /\ on \in [Users -> Workers \cup {Leader}]
  /\ job \in {"active", "failed"}

LocustInit ==
  /\ SessionInit
  /\ size \in Sizes
  /\ \A u \in Users : u >= size.users => wb[u] = "absent"
  /\ pod = [p \in Pods |-> CASE p = Leader -> "starting"
                             [] p \in 1 .. size.workers -> "looking"
                             [] OTHER -> "none"]
  /\ looked = [w \in Workers |-> 0]
  /\ status = [p \in Pods |-> -1]
  /\ exitFile = [p \in Pods |-> -1]
  /\ clients = <<>>
  /\ started = FALSE
  /\ inbox = [w \in Workers |-> <<>>]
  /\ ready_ = [w \in Workers |-> FALSE]
  /\ indexes = [w \in Workers |-> {}]
  /\ new = [w \in Workers |-> FALSE]
  /\ on = [u \in Users |-> Leader]
  /\ job = "active"

-----------------------------------------------------------------------------
(* entrypoint.py *)

\* os.system returns the exit code of Locust in the second byte, and
\* sys.exit keeps the first one.
SystemReturns(exit) == exit * 256
ExitStatus(n) == n % 256

\* The finally clause: test.exit_code, then the end of the container.  An
\* exception leaves 255 in the file, and exits 1.
Ends(p, retcode, exception) ==
  /\ pod' = [pod EXCEPT ![p] = "over"]
  /\ exitFile' = [exitFile EXCEPT ![p] = IF exception THEN 255 ELSE retcode]
  /\ status' = [status EXCEPT ![p] = IF exception THEN 1
                                                  ELSE ExitStatus(retcode)]

\* main(): the rank 0 runs the master, the others look for it.
StartLeader ==
  /\ job = "active"
  /\ pod[Leader] = "starting"
  /\ pod' = [pod EXCEPT ![Leader] = "locust"]
  /\ UNCHANGED <<sessionVars, size, looked, status, exitFile, locust, job>>

\* get_leader_ip: the address, False or None when there is none yet, an
\* exception when the API does not answer with a list of Pods.
LeaderIp ==
  IF pod[Leader] = "starting" THEN {"none", "exception"}
                              ELSE {"none", "exception", "address"}

\* main() of a worker: it gives up with 255 after the last retry.
LookForTheLeader(w) ==
  /\ pod[w] = "looking"
  /\ \E ip \in LeaderIp :
       CASE ip = "address" ->
              /\ pod' = [pod EXCEPT ![w] = "locust"]
              /\ UNCHANGED <<status, exitFile>>
         [] ip = "none" /\ looked[w] + 1 < LeaderRetries ->
              UNCHANGED <<pod, status, exitFile>>
         [] OTHER -> Ends(w, 255, ip = "exception")
  /\ looked' = [looked EXCEPT ![w] = IF pod'[w] = "looking" THEN @ + 1 ELSE 0]
  /\ UNCHANGED <<sessionVars, size, locust, job>>

\* os.system returns: Locust exits 1 when something has failed.
LocustExits(p) ==
  /\ pod[p] = "quitting"
  /\ p # Leader => Sessions(p) = {}
  /\ \E exit \in {0} \cup {1 : u \in {v \in Users : "error" \in csv[v]}} :
       Ends(p, SystemReturns(exit), FALSE)
  /\ UNCHANGED <<sessionVars, size, looked, locust, job>>

-----------------------------------------------------------------------------
(* locust_users.py *)

\* The slices of range(n): chunks of ceil(n/m), and the rest for the last.
ChunkSize(n, m) == (n + m - 1) \div m
\* Mutant: the slices all start at 0.
ChunkFromZero(n, m, i) ==
  {u \in 0 .. n - 1 : i + 1 < m => u < (i + 1) * ChunkSize(n, m)}

Chunk(n, m, i) ==
  LET start == i * ChunkSize(n, m)
      end == IF i + 1 < m THEN start + ChunkSize(n, m) ELSE n
  IN  {u \in 0 .. n - 1 : start <= u /\ u < end}

\* on_test_start: a worker that connects later gets no message.
TestStart ==
  /\ Running(Leader)
  /\ ~started
  /\ Len(clients) > 0
  /\ started' = TRUE
  /\ inbox' = [w \in Workers |->
                 IF Knows(w)
                 THEN LET i == CHOOSE k \in DOMAIN clients : clients[k] = w
                      IN  <<Chunk(size.users, Len(clients), i - 1)>>
                 ELSE <<>>]
  /\ UNCHANGED <<sessionVars, size, pods, clients, ready_, indexes, new, on, job>>

\* setup_test_users.
ReceiveUsers(w) ==
  /\ Running(w)
  /\ inbox[w] # <<>>
  /\ indexes' = [indexes EXCEPT ![w] = @ \cup Head(inbox[w])]
  /\ inbox' = [inbox EXCEPT ![w] = Tail(@)]
  /\ ready_' = [ready_ EXCEPT ![w] = TRUE]
  /\ pod' = IF indexes'[w] = {} THEN [pod EXCEPT ![w] = "quitting"] ELSE pod
  /\ UNCHANGED <<sessionVars, size, looked, status, exitFile, clients, started, new, on, job>>

-----------------------------------------------------------------------------
(* WorkbenchUser *)

\* Locust gives a user to a worker, which creates them one after the other.
SpawnUser(w) ==
  /\ started /\ Running(w) /\ Running(Leader)
  /\ Knows(w)
  /\ ~new[w]
  /\ Cardinality(Live) + Cardinality({v \in Workers : new[v] /\ Running(v)}) < size.users
  /\ new' = [new EXCEPT ![w] = TRUE]
  /\ UNCHANGED <<sessionVars, size, pods, clients, started, inbox, ready_, indexes, on, job>>

\* __init__: the last of the indexes; without one it stops the runner, and
\* so every user of the worker.
TakeIndex(w) ==
  /\ Running(w)
  /\ new[w]
  /\ ready_[w]
  /\ new' = [new EXCEPT ![w] = FALSE]
  /\ IF indexes[w] = {}
     THEN /\ pod' = [pod EXCEPT ![w] = "quitting"]
          /\ UNCHANGED <<pc, indexes, on>>
     ELSE LET u == CHOOSE k \in indexes[w] : \A j \in indexes[w] : j <= k
          IN  /\ pc' = [pc EXCEPT ![u] = "connect"]
              /\ indexes' = [indexes EXCEPT ![w] = @ \ {u}]
              /\ on' = [on EXCEPT ![u] = w]
              /\ UNCHANGED pod
  /\ UNCHANGED <<cluster, obj, locals, killed, refused, csv>>
  /\ UNCHANGED <<size, looked, status, exitFile, clients, started, inbox, ready_, job>>

\* launch_a_workbench, run a second time, stops the runner.
RunAgain(u) ==
  /\ pc[u] = "again"
  /\ Running(on[u])
  /\ pod' = [pod EXCEPT ![on[u]] = "quitting"]
  /\ UNCHANGED <<sessionVars, size, looked, status, exitFile, locust, job>>

Session(u) ==
  /\ on[u] # Leader
  /\ pod[on[u]] \in {"locust", "quitting"}
  /\ SessionStep(u)
  /\ UNCHANGED <<size, pods, locust, job>>

\* A runner that quits stops its users.
StopUser(u) ==
  /\ on[u] # Leader
  /\ pod[on[u]] = "quitting"
  /\ KillSession(u)
  /\ UNCHANGED <<size, pods, locust, job>>

-----------------------------------------------------------------------------
(* Locust and Kubernetes, which are external. *)

Connect(w) ==
  /\ Running(w) /\ Running(Leader)
  /\ ~Knows(w)
  /\ clients' = Append(clients, w)
  /\ UNCHANGED <<sessionVars, size, pods, started, inbox, ready_, indexes, new, on, job>>

\* LOCUST_RUN_TIME, or the end of the last of the workers.
MasterQuits ==
  /\ Running(Leader)
  /\ started
  /\ pod' = [pod EXCEPT ![Leader] = "quitting"]
  /\ UNCHANGED <<sessionVars, size, looked, status, exitFile, locust, job>>

\* The message quit of the master, or its absence.
WorkerQuits(w) ==
  /\ Running(w)
  /\ pod[Leader] \in {"quitting", "over"}
  /\ pod' = [pod EXCEPT ![w] = "quitting"]
  /\ UNCHANGED <<sessionVars, size, looked, status, exitFile, locust, job>>

Launch(u) ==
  /\ RouteAppears(u)
  /\ UNCHANGED <<size, pods, locust, job>>

\* backoffLimit: 0: a failed Pod ends the Job and the other Pods.
LocustJobFails ==
  /\ job = "active"
  /\ \E p \in Pods : status[p] > 0
  /\ job' = "failed"
  /\ pod' = [p \in Pods |-> "over"]
  /\ pc' = [u \in Users |-> IF on[u] # Leader /\ pc[u] # "done" THEN "lost" ELSE pc[u]]
  /\ UNCHANGED <<cluster, obj, locals, killed, refused, csv>>
  /\ UNCHANGED <<size, looked, status, exitFile, locust>>

WorkerStep(w) ==
  LookForTheLeader(w) \/ ReceiveUsers(w) \/ SpawnUser(w) \/ TakeIndex(w)

LocustNext ==
  \/ StartLeader \/ \E p \in Pods : LocustExits(p)
  \/ \E w \in Workers : WorkerStep(w) \/ Connect(w) \/ WorkerQuits(w)
  \/ \E u \in Users : Session(u) \/ RunAgain(u) \/ StopUser(u) \/ Launch(u)
  \/ TestStart \/ MasterQuits \/ LocustJobFails

LocustSpec == LocustInit /\ [][LocustNext]_locustVars

\* Requests are answered or time out, and a runner that quits stops its users.
LocustFairSpec ==
  /\ LocustSpec
  /\ \A u \in Users : WF_locustVars(Session(u) \/ RunAgain(u) \/ StopUser(u))

-----------------------------------------------------------------------------
(* Properties. *)

Holds(w, u) ==
  \/ on[u] = w
  \/ u \in indexes[w]
  \/ \E i \in DOMAIN inbox[w] : u \in inbox[w][i]

\* No two simulated users are the same user of the cluster: an index belongs
\* to one worker, and to one session of it, whatever the number of workers
\* the chunks were cut for.
OneSessionPerUser ==
  \A u \in Users :
    /\ \A v, w \in Workers : Holds(v, u) /\ Holds(w, u) => v = w
    /\ on[u] # Leader => u \notin indexes[on[u]]

\* A session comes to its end: the retries are bounded, and the second
\* execution of the task stops the worker.
SessionsEnd ==
  \A u \in Users : pc[u] = "connect" ~> pc[u] \in {"done", "lost"}
=============================================================================
