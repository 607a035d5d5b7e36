-------------------------- MODULE MCGatewaySessions --------------------------
EXTENDS GatewaySessions, TLC
CONSTANTS a, b, r1, r2, r3

\* Requests of a situation are given as <<op, session>>.
MCWorld(req, known, nchanges, events) ==
    [op |-> [r \in Requests |-> IF r \in DOMAIN req THEN req[r][1] ELSE "off"],
     sid |-> [r \in Requests |-> IF r \in DOMAIN req THEN req[r][2] ELSE a],
     known |-> known, changes |-> nchanges, events |-> events]

\* In turn: lists of one session that share a pooled upstream session, with an
\* upstream that fails, while the session idles or its JWT runs
\* out, across a restart; a session deleted under its requests; selections of two
\* sessions and a change of the tools; a session made by initialize; a stream, and
\* scopes at the limit of the store.
MCWorlds ==
    { MCWorld(r1 :> <<"list", a>> @@ r2 :> <<"list", a>>, {a}, 0, {"failure", "expire"}),
      MCWorld(r1 :> <<"list", a>> @@ r2 :> <<"list", a>>, {a}, 0, {"idle", "expire"}),
      MCWorld(r1 :> <<"list", a>> @@ r2 :> <<"select", a>>, {a}, 1, {"restart"}),
      MCWorld(r1 :> <<"list", a>> @@ r2 :> <<"select", a>> @@ r3 :> <<"delete", a>>, {a}, 0, {}),
      MCWorld(r1 :> <<"list", a>> @@ r2 :> <<"delete", a>>, {a}, 0, {"failure", "expire"}),
      MCWorld(r1 :> <<"select", a>> @@ r2 :> <<"select", b>>, {a, b}, 2, {"window"}),
      MCWorld(r1 :> <<"initialize", a>> @@ r2 :> <<"initialized", a>> @@ r3 :> <<"list", a>>,
              {}, 0, {"idle"}),
      MCWorld(r1 :> <<"get", a>> @@ r2 :> <<"reset", a>> @@ r3 :> <<"select", b>>,
              {a, b}, 0, {"ttl", "leave"}),
      MCWorld(r1 :> <<"get", a>> @@ r2 :> <<"reset", a>>, {a}, 1, {"idle"}) }
=============================================================================
