----------------------------- MODULE MC_S3Deploy -----------------------------
(* Two concurrent calls.  One archive has an entry named with and one      *)
(* without "./"; the other shares a key with it, as two archives of one    *)
(* artifact do.  One S3 call may fail.                                     *)
EXTENDS S3Deploy

CONSTANTS d1, d2, dot, a, b

MCDeployers == {d1, d2}
MCArchives == (d1 :> <<<<dot, a>>, <<b>>>>) @@ (d2 :> <<<<a>>>>)
MCMaxFaults == 1
=============================================================================
