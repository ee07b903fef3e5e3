-------------------------- MODULE MCEventSanitize --------------------------
(* Model-checking instance of EventSanitize. *)
EXTENDS EventSanitize, SequencesExt

MCKeys == {"password", "password_change_date", "name", "1"}
MCHiddenKeys == {"password", "password_change_date"}
MCAllowedKeys == {"password_change_date"}
MCNonStrKeys == {"1"}

\* one value of each branch of sanitize_item, the falsy ones included
Leaves ==
    {Str("hunter2"), Str(""), IntV(0), IntV(5), <<"bool", FALSE>>, NoneValue,
     <<"uuid", "9f1c">>, <<"strlike", "2024-01-01T00:00:00Z">>, <<"request", 0>>, <<"model", "app1">>,
     <<"user", "regular">>, <<"user", "anonymous">>,
     <<"user", "anonymous_missing">>, <<"enum", IntV(0)>>,
     <<"policy_request", <<"user", "regular">>>>, <<"tuple", <<>>>>}

\* leaves that sanitize to a falsy value
Falsy ==
    {Str(""), IntV(0), <<"bool", FALSE>>, NoneValue,
     <<"user", "anonymous_missing">>, <<"enum", IntV(0)>>, <<"tuple", <<>>>>}

Containers ==
    {<<t, s>> : t \in {"list", "tuple"}, s \in BoundedSeq(Leaves, 2)}
    \cup {Dict(<<<<k, x>>>>) : k \in MCKeys, x \in Leaves} \cup {Dict(<<>>)}

AllInputs == {Dict(<<<<k, x>>>>) : k \in MCKeys, x \in Leaves \cup Containers}

ListHolds(d, S) ==
    LET x == d[2][1][2] IN
    x[1] \in {"list", "tuple"} /\ \E i \in 1..Len(x[2]) : x[2][i] \in S

MCInputs ==
    {d \in AllInputs : ~ListHolds(d, Falsy \cup {<<"request", 0>>})}
MCFalsyInLists == {d \in AllInputs : ListHolds(d, Falsy)}
MCRequestInLists == {d \in AllInputs : ListHolds(d, {<<"request", 0>>})}
=============================================================================
