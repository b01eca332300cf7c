--------------------------- MODULE MCServiceWorker ---------------------------
(* Three releases, of which the second leaves sw.js as it is.               *)
EXTENDS ServiceWorker

MCScript == <<1, 1, 2>>
MCTargets == {[absolute |-> TRUE, page |-> Root]}
=============================================================================
