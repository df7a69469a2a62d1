--------------------------- MODULE MCWorkerTracing ---------------------------
(* Constants of WorkerTracing for TLC. *)
EXTENDS MCWorker, WorkerTracing

\* The coordinator's URLs have the scheme of its certificate.
ProxiedReceivers == [d \in Bags |-> IF d.tls = NoTLS THEN "http" ELSE "https"]
=============================================================================
