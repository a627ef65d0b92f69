---------------------------- MODULE QueryReplyMC ----------------------------
EXTENDS QueryReply, TLC

CONSTANTS q1, q2, k1, k2

\* One query that every queryable may answer and one that a single one may.
MCMatches == q1 :> Queryable @@ q2 :> {k1}

=============================================================================
