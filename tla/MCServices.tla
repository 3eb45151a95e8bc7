----------------------------- MODULE MCServices -----------------------------
(***************************************************************************)
(* The components that share no state in the model, each with a small      *)
(* instance.  A behaviour is one of a single component, the focus, and the *)
(* others stay in one initial state, so that their state spaces add up.    *)
(***************************************************************************)
EXTENDS Membership, Limits, Ask, Shutdown, TextPipeline

-----------------------------------------------------------------------------
(* Membership: two spellings of one address, and another address *)

MCLowerCase == [e \in Emails |-> IF e = "A@x" THEN "a@x" ELSE e]

(* Text: a line that is split and one that fits, a heading and a clause, which *)
(* out of turn are lines like others                                          *)

MCShape(kind, number, chars, text) ==
    [kind |-> kind, number |-> number, clause |-> number, titled |-> TRUE, chars |-> chars,
     text |-> text]
MCShapes ==
    {MCShape("text", 0, 5, << <<2>>, <<4, 3>> >>), MCShape("section", 1, 3, << <<1>> >>),
     MCShape("clause", 1, 1, << <<2>> >>), MCShape("text", 0, 3, << <<3>> >>)}

-----------------------------------------------------------------------------
VARIABLE focus

ServicesInit ==
    /\ focus \in {"members", "limits", "ask", "shutdown", "text"}
    /\ MemberInit /\ LimitInit /\ AskInit /\ ShutdownInit /\ TextInit
    /\ focus # "limits" => limiter = "rateLimit"
    /\ focus # "ask" => configured
    /\ focus # "shutdown" => program = "api"

FocusOn(f) ==
    /\ focus = f
    /\ UNCHANGED focus
    /\ f = "members" \/ UNCHANGED memberVars
    /\ f = "limits" \/ UNCHANGED limitVars
    /\ f = "ask" \/ UNCHANGED <<vars, askVars>>
    /\ f = "shutdown" \/ UNCHANGED shutdownVars
    /\ f = "text" \/ UNCHANGED pages

ServicesNext ==
    \/ FocusOn("members") /\ MemberNext
    \/ FocusOn("limits") /\ LimitNext
    \/ FocusOn("ask") /\ AskNext
    \/ FocusOn("shutdown") /\ ShutdownNext
    \/ FocusOn("text") /\ TextNext

ServicesSpec ==
    /\ ServicesInit
    /\ [][ServicesNext]_<<focus, memberVars, limitVars, vars, askVars, shutdownVars, pages>>
    /\ ShutdownFairness
=============================================================================
