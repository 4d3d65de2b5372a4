--------------------------- MODULE MCRequestPath ---------------------------
(* A long request beside a short one, one native and one announced plugin,   *)
(* an allow-list by short name and by plugin, and a context that a big       *)
(* result or the tools' schemas can overflow.                                *)
EXTENDS RequestPath

CONSTANTS r1, r2, host, car, fetch, find, c1, v1, star, none

MCNative == <<[name |-> <<host, fetch>>, via |-> v1]>>
MCAnnounced == {[name |-> <<car, t>>, via |-> v1] : t \in {fetch, find}}
MCAllowLists == {{<<car, star>>}}
MCCalled == {<<>>, <<<<none, fetch>>>>, <<<<car, fetch>>, <<none, find>>>>}

Plain == [api |-> "chat", client |-> c1, keyOk |-> TRUE, body |-> "ok",
          stream |-> FALSE, tools |-> "none", choice |-> "auto",
          delegates |-> FALSE, allow |-> {}, research |-> FALSE, count |-> 0, size |-> 1]

\* Sent beside a status request.
Long ==
    {[Plain EXCEPT !.api = "research", !.research = b, !.stream = b] : b \in BOOLEAN}
    \cup {[Plain EXCEPT !.research = TRUE, !.count = 2]}
    \cup {[Plain EXCEPT !.api = "completions", !.stream = s] : s \in BOOLEAN}
    \cup {[Plain EXCEPT !.choice = "odd"]}
    \cup {[Plain EXCEPT !.allow = l] : l \in {{<<none, fetch>>}, {<<host, star>>, <<host, fetch>>}}}
    \cup {[Plain EXCEPT !.stream = TRUE, !.choice = c] : c \in {"required", "object", "forced"}}
    \cup {[Plain EXCEPT !.size = 5], [Plain EXCEPT !.delegates = TRUE]}
    \cup {[Plain EXCEPT !.tools = "kept"]}
    \cup {[Plain EXCEPT !.api = "messages", !.tools = t, !.choice = "any"] :
              t \in {"kept", "gated"}}
    \cup {[Plain EXCEPT !.api = "debug", !.allow = {<<none, fetch>>}]}

\* Sent beside a debug request.
Brief ==
    {[Plain EXCEPT !.api = a] : a \in {"health", "count_tokens"}}
    \cup {[Plain EXCEPT !.keyOk = FALSE]}
    \cup {[Plain EXCEPT !.body = b, !.api = a] :
              b \in {"broken", "mistyped"}, a \in {"messages", "chat"}}

Both(s1, s2) == [r \in {r1, r2} |-> IF r = r1 THEN s1 ELSE s2]

MCMixes ==
    {Both(s, [Plain EXCEPT !.api = "status"]) : s \in Long}
    \cup {Both([Plain EXCEPT !.api = "debug"], s) : s \in Brief}
    \cup {Both([Plain EXCEPT !.research = TRUE, !.stream = TRUE, !.delegates = TRUE],
               [Plain EXCEPT !.api = "messages", !.tools = "kept"])}
=============================================================================
