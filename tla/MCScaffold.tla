---- MODULE MCScaffold ----
(* Finite instance of Scaffold for TLC. *)
EXTENDS Scaffold

Shop == {<<"shop">>, <<"api">>}
Free == {<<"core">>, <<"api">>}
Asked == {{}, {"auth"}, {"messaging"}, {"realtime", "metrics"}, {"compliance", "featureflags"}}
=============================================================================
