--------------------------- MODULE MCBatchAssembly ---------------------------
(* A sender with several recipients, a token of one of them, an account held out of the first *)
(* partition, and payments to add: late ones, one in another currency, one to a token only.   *)
EXTENDS BatchAssembly

Pay(rail, from, to, ttok) ==
    [op |-> "pay", rail |-> rail, from |-> from, to |-> to, ftok |-> None, ttok |-> ttok,
     usd |-> TRUE, late |-> 0]
Bind(op) == [op |-> op, token |-> "t", account |-> "b"]

MCPartition == [a |-> 1, b |-> 1, c |-> 2]
MCSeeded == <<Pay("zelle", "a", "b", None), Bind("bind"), Pay("zelle", "a", "c", "t"),
              Pay("zelle", "b", "a", None)>>
MCEntries == {Pay("zelle", "a", "b", "t"), Pay("zelle", "a", None, "t"), Pay("zelle", "c", "b", None),
              Pay("card", "a", "b", None), [Pay("card", "a", "b", "t") EXCEPT !.late = 4],
              [Pay("ach", "a", "b", None) EXCEPT !.usd = FALSE], Bind("unbind")}
MCViews == {<<TRUE, 1>>, <<FALSE, 3>>}
MCRootSets == {<<<<"a", 5>>, <<"a", 7>>, <<"c", 7>>>>, <<<<"a", 7>>, <<"b", 5>>>>, <<<<"b", 7>>>>, <<<<"c", 7>>>>}
MCRoots == [recent |-> 1, older |-> 1, distinct |-> 1, associations |-> 2, max_history |-> 3]
MCChildren == [recent |-> 2, older |-> 0, distinct |-> 1, associations |-> 0, max_history |-> 2]
MCRelease == [installed |-> TRUE, loads |-> TRUE, version |-> <<26, 8>>, unified |-> FALSE,
              behaviour |-> [numbering |-> "rank", fault |-> "none"]]
MCHost(configured, mode, device, release) ==
    [configured |-> configured, mode |-> mode, device |-> device] @@ release
MCHosts == {MCHost("torch", "train", "cpu", MCRelease), MCHost("auto", "train", "cuda", MCRelease),
            MCHost("cugraph", "eval", "cuda", MCRelease)}
MCBehaviours == {[numbering |-> "label", fault |-> "none"]}
    \cup [numbering : {"rank"}, fault : {"none", "exchanged", "over", "twice", "misfiled"}]

\* The probe passes a library that draws rightly, in either numbering, and no other; a host
\* without a GPU, without the library or of an old release falls back or is refused.
ASSUME ProbeFindsFaults ==
    \A numbering \in Numberings, fault \in Faults :
      Probe([numbering |-> numbering, fault |-> fault]) <=> fault = "none"
ASSUME BackendOfHost ==
    /\ \A h \in MCHosts : ResolveBackend("auto", h) = IF h.device = "cuda" THEN "cugraph" ELSE "torch"
    /\ \A h \in {MCHost("cugraph", "train", "cuda", [MCRelease EXCEPT !.version = <<26, v>>]) : v \in {2, 10}} :
         ResolveBackend("auto", h) = "torch" /\ ResolveBackend("cugraph", h) = "refused"

MCFanouts == <<4, 2>>
MCQuotas == <<2, 2>>
=============================================================================
