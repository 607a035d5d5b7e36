------------------------------ MODULE MCRouter ------------------------------
EXTENDS Router, TLC
CONSTANTS g1, g2, s1, s2, r1, r2, r3, k1, k2, p1, p2

\* Requests of a situation are given as <<kind, session, server, process>>, token
\* forms by their user.
MCWorld(mode, req, user, elicits, flagged, events) ==
    [mode |-> mode,
     kind |-> [r \in Requests |-> IF r \in DOMAIN req THEN req[r][1] ELSE "off"],
     gw |-> [r \in Requests |-> IF r \in DOMAIN req THEN req[r][2] ELSE g1],
     server |-> [r \in Requests |-> IF r \in DOMAIN req THEN req[r][3] ELSE s1],
     pod |-> [r \in Requests |-> IF r \in DOMAIN req THEN req[r][4] ELSE p1],
     sub |-> [r \in Requests |-> "user"],
     user |-> [k \in Posts |-> IF k \in DOMAIN user THEN user[k] ELSE None],
     elicits |-> elicits, flagged |-> flagged, events |-> events]

\* The same with other Authorization headers.
WithSub(w, sub) == [w EXCEPT !.sub = [r \in Requests |-> IF r \in DOMAIN sub THEN sub[r] ELSE @[r]]]

NoUser == [k \in {} |-> None]
Tool(g, s, p) == <<"tool", g, s, p>>
Prompt(g, s, p) == <<"prompt", g, s, p>>
Answers(g, p) == <<"answer", g, s1, p>>

\* In turn: calls of two sessions that initialise at the same time, to one server
\* and to two; calls of one session while sessions are forgotten and deleted; two
\* processes on one Redis that fails, and of which one dies; questions in a
\* stream and answers to them, in memory and in Redis; tokens supplied by the
\* right and by another user, twice, refused, outdated; a client that initialises;
\* requests without a JWT and with one that lacks the sub claim.
MCWorlds ==
    { MCWorld("memory", r1 :> Tool(g1, s1, p1) @@ r2 :> Prompt(g1, s1, p1) @@ r3 :> Tool(g2, s1, p1),
              NoUser, {}, {}, {"failure"}),
      MCWorld("memory", r1 :> Tool(g1, s1, p1) @@ r2 :> Tool(g1, s2, p1),
              NoUser, {}, {}, {"forget", "terminate", "expire"}),
      MCWorld("memory", r1 :> Tool(g1, s1, p1) @@ r2 :> Tool(g1, s1, p1),
              NoUser, {}, {}, {"forget", "terminate", "expire", "failure"}),
      MCWorld("redis", r1 :> Tool(g1, s1, p1) @@ r2 :> Tool(g1, s1, p2),
              NoUser, {}, {}, {"expire", "failure"}),
      MCWorld("redis", r1 :> Tool(g1, s1, p1) @@ r2 :> Tool(g1, s1, p2) @@ r3 :> Tool(g1, s1, p1),
              NoUser, {}, {}, {"failure"}),
      MCWorld("redis", r1 :> Tool(g1, s1, p1) @@ r2 :> Tool(g1, s1, p2),
              NoUser, {}, {}, {"expire", "crash"}),
      MCWorld("memory", r1 :> Tool(g1, s1, p1) @@ r2 :> Answers(g1, p1) @@ r3 :> Answers(g2, p1),
              NoUser, {}, {g1}, {"expire", "abort", "forget"}),
      MCWorld("redis", r1 :> Tool(g1, s1, p1) @@ r2 :> Answers(g1, p2) @@ r3 :> Answers(g1, p1),
              NoUser, {}, {g1}, {"late", "abort", "failure", "config"}),
      MCWorld("memory", r1 :> Tool(g1, s1, p1) @@ r2 :> Tool(g1, s1, p1),
              k1 :> g1 @@ k2 :> g2, {s1}, {g1}, {"late", "refuse", "config"}),
      MCWorld("memory", r1 :> Tool(g1, s1, p1) @@ r2 :> Tool(g1, s1, p1) @@ r3 :> Prompt(g1, s1, p1),
              k1 :> g1 @@ k2 :> g1, {s1}, {g1}, {"refuse"}),
      MCWorld("redis", r1 :> Tool(g1, s1, p1) @@ r2 :> Tool(g1, s1, p2),
              k1 :> g1, {s1}, {g1}, {"outdate", "expire", "failure"}),
      MCWorld("memory", r1 :> <<"initialize", g1, s1, p1>> @@ r2 :> Tool(g1, s1, p1) @@ r3 :> Prompt(g1, s1, p1),
              k1 :> g1, {s1}, {}, {"outdate", "crash", "terminate"}),
      WithSub(MCWorld("memory", r1 :> Tool(g1, s1, p1) @@ r2 :> Tool(g1, s1, p1) @@ r3 :> Tool(g1, s1, p1),
                      k1 :> g1 @@ k2 :> g2, {s1}, {g1}, {"refuse"}),
              r1 :> "none" @@ r2 :> "broken") }
=============================================================================
