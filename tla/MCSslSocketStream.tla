------------------------- MODULE MCSslSocketStream -------------------------
(* A TLC instance of SslSocketStream: three threads and three references   *)
(* to a stream, so that it can be shared, used and dropped at once.        *)
EXTENDS SslSocketStream

CONSTANTS s1, t1, t2, t3, named, empty

MCStreams   == {s1}
MCThreads   == {t1, t2, t3}
MCHostNames == {named, empty}

=============================================================================
