----------------------------- MODULE MCSession -----------------------------
(* Small instances of the session for TLC. *)
EXTENDS Session

MCRequest(id, run, actor, based_on, at, kind) ==
    [id |-> id, run |-> run, actor |-> actor, based_on |-> based_on,
     submitted_at |-> at, kind |-> kind]

\* Three requests that share an identity, an INFORM and one of a foreign run
\* among them, and a request of the other actor; what they are based on may be
\* another actor's observation or not be made yet.
MCRequests ==
    {MCRequest("q1", "run", "ada", 1, 0, "INFORM"),
     MCRequest("q1", "run", "ada", 1, 0, "DOMAIN"),
     MCRequest("q1", "other", "ada", 1, 0, "DOMAIN"),
     MCRequest("q2", "run", "bob", 2, 1, "DOMAIN")}
=============================================================================
