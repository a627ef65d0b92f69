------------------------------- MODULE Stream -------------------------------
(***************************************************************************)
(* What a channel handler promises to the application (api/channels.hxx):  *)
(* an ordered stream of the data entries that entered the channel, each    *)
(* delivered at most once and in order, followed by Z_DISCONNECTED, after  *)
(* which there is no more data.  A FIFO channel loses nothing; a ring      *)
(* channel may lose the oldest undelivered entry, and only when a new      *)
(* entry replaces it.                                                      *)
(***************************************************************************)
EXTENDS Naturals, Sequences

CONSTANT Entries

VARIABLES log,      \* the entries that entered the channel, in order
          pos,      \* how many of them have left it
          got,      \* the entries delivered to the application, in order
          ended,    \* no entry will enter any more
          lossy,    \* is it a ring channel's stream?
          eos       \* the application was told Z_DISCONNECTED

streamVars == <<log, pos, got, ended, lossy, eos>>

\* A stream of which nothing is known yet, or one that is empty for good.
StreamInit ==
    /\ log = <<>> /\ pos = 0 /\ got = <<>>
    /\ ended \in BOOLEAN /\ lossy \in BOOLEAN /\ eos = FALSE

Enter(m) ==
    /\ ~ended
    /\ log' = Append(log, m)
    /\ UNCHANGED <<pos, got, ended, lossy, eos>>

\* A ring channel replaces its oldest entry.
Replace(m) ==
    /\ lossy /\ ~ended /\ pos < Len(log)
    /\ log' = Append(log, m)
    /\ pos' = pos + 1
    /\ UNCHANGED <<got, ended, lossy, eos>>

Deliver ==
    /\ pos < Len(log)
    /\ got' = Append(got, log[pos + 1])
    /\ pos' = pos + 1
    /\ UNCHANGED <<log, ended, lossy, eos>>

\* The source of the stream is gone, or its reader is: what the reader has not
\* fetched before it left is lost.
End ==
    /\ ended' = TRUE
    /\ pos' \in {pos, Len(log)}
    /\ UNCHANGED <<log, got, lossy, eos>>

Disconnect ==
    /\ ended /\ pos = Len(log)
    /\ eos' = TRUE
    /\ UNCHANGED <<log, pos, got, ended, lossy>>

StreamNext ==
    \/ \E m \in Entries : Enter(m) \/ Replace(m)
    \/ Deliver \/ End \/ Disconnect

StreamSpec == StreamInit /\ [][StreamNext]_streamVars

=============================================================================
