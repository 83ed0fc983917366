---------------------------- MODULE MCResultsStore ----------------------------
(***************************************************************************)
(* Every workload: with its artifacts here, one or two of them absent or   *)
(* one bad; or downloaded, next to no cache, or to one that is older than  *)
(* the parsers, as old as they are, or cut.                                *)
(***************************************************************************)
EXTENDS ResultsStore

Good(w) == [a \in ArtifactsOf(w) |-> "good"]
Nothing(w) == [a \in ArtifactsOf(w) |-> "absent"]
Faulty(w, faults) ==
  {[Good(w) EXCEPT ![a] = "bad"] : a \in faults}
  \cup {[Good(w) EXCEPT ![a] = "absent", ![b] = "absent"] : a, b \in faults}
  \cup {Good(w)}

Parsed(w) ==
  Parse(OnceSteps[w], Good(w), Parse(AlwaysSteps[w], Good(w), NoFields(w)).fields).fields

ServerCaches(w) == {NoCache, TornCache, WholeCache(0, Parsed(w)), WholeCache(1, Parsed(w))}

Here(w) ==
  {[workload |-> w, server |-> [files |-> Nothing(w), cache |-> NoCache],
    files |-> f, cache |-> NoCache] : f \in Faulty(w, ArtifactsOf(w))}

There(w) ==
  {[workload |-> w, server |-> [files |-> f, cache |-> c],
    files |-> Nothing(w), cache |-> NoCache] :
      f \in Faulty(w, {"config.yaml"}), c \in ServerCaches(w)}

MCStarts == UNION {Here(w) \cup There(w) : w \in Workloads}

Asked(download, lts, save, ignore, filters, n) ==
  [download |-> download, lts |-> lts, save |-> save, ignore |-> ignore,
   filters |-> filters, reports |-> n]

MCPlans == {Asked(FALSE, FALSE, FALSE, FALSE, 2, 1),
            Asked(TRUE, TRUE, FALSE, FALSE, 1, 2),
            Asked(FALSE, TRUE, TRUE, TRUE, 1, 1)}
=============================================================================
