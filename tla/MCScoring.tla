------------------------------ MODULE MCScoring ------------------------------
(* Five accounts in batches of two, the last of one: a mule that may be rejected is in the *)
(* first batch, another account that may be in the second.                                 *)
EXTENDS DiagnosticStudy

MCCalls == 1..Items
MCIds == <<"a", "c", "b", "d", "e">>

MCPlans ==
    {<<"score", "score">>, <<"evaluate", "evaluate">>, <<"evaluate", "study">>,
     <<"study", "upgrade", "study">>, <<"study", "ingest", "study", "ingest">>}
MCNamed == {"all", "univariate", "subgroups", "reveal-spread"}
=============================================================================
