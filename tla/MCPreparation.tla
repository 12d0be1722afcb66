---------------------------- MODULE MCPreparation ----------------------------
(* Small instances of Preparation: three queries in three files, and configurations that
   share a graph. *)
EXTENDS Preparation

CONSTANTS fourier, context, reveal_query, types_file, s1

Repository == {fourier, context, reveal_query}
ContextCallsFourier == {<<context, fourier>>}
RepositoryFiles == <<{fourier}, {context}, {reveal_query}>>
UpdatesOfOne == {{fourier}, {reveal_query}, {types_file}}

Config(s, r, d) == [scope |-> s, partition |-> 1, reveal |-> r, dates |-> d]

\* Two configurations that differ in their reveal.
TwoReveals == {Config(s1, 1, 1), Config(s1, 2, 1)}
===============================================================================
