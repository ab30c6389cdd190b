------------------------------ MODULE TokenStream ------------------------------
(* What a client of the pipeline is promised (payloads/looma_stage,           *)
(* scheduler.py and the readers in server.py): its tokens one by one, the     *)
(* n-th being that of its n-th step, and one event at the end, after which    *)
(* there is nothing more.  Only of a request one of whose messages has been   *)
(* repeated or overtaken are the tokens not vouched for.  Pipeline implements *)
(* this.                                                                      *)
EXTENDS Naturals, Sequences

CONSTANTS Request,
          Want       \* max_tokens of every request

VARIABLES given,     \* the tokens each request was given
          mark,      \* how it ended: "none", "stop", "length", "error"
          garbled    \* requests a repeated or overtaken message was about
streamVars == <<given, mark, garbled>>

StreamInit ==
    /\ given = [r \in Request |-> <<>>]
    /\ mark = [r \in Request |-> "none"]
    /\ garbled = {}

\* A token, whichever if the request is garbled. It may be the last: the model
\* says stop, or it is the last one the client has asked for.
Token(r) ==
    /\ mark[r] = "none" /\ Len(given[r]) < Want /\ Len(given'[r]) = Len(given[r]) + 1
    /\ given' = [given EXCEPT ![r] = Append(@, given'[r][Len(given[r]) + 1])]
    /\ r \notin garbled => given'[r][Len(given'[r])] = Len(given'[r])
    /\ \E end \in IF Len(given[r]) + 1 = Want THEN {"stop", "length"} ELSE {"none", "stop"} :
          mark' = [mark EXCEPT ![r] = end]
    /\ UNCHANGED garbled

\* A step fails, and with it all that were in it.
Fails(S) ==
    /\ \A r \in S : mark[r] = "none"
    /\ mark' = [r \in Request |-> IF r \in S THEN "error" ELSE mark[r]]
    /\ UNCHANGED <<given, garbled>>

Garble(S) ==
    /\ garbled' = garbled \union S
    /\ UNCHANGED <<given, mark>>

StreamNext ==
    \/ \E r \in Request : Token(r)
    \/ \E S \in (SUBSET Request) \ {{}} : Fails(S) \/ Garble(S)

StreamSpec == StreamInit /\ [][StreamNext]_streamVars
=============================================================================
