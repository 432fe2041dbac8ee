------------------------------- MODULE Router -------------------------------
(***************************************************************************)
(* nhttp::router: the trie of routes with its registration calls, the      *)
(* group proxies, the match with backtracking, and the middleware around a *)
(* target with plugin_scope as one kind of middleware (src/router/*.cpp,   *)
(* src/plugin/plugin_scope.cpp).                                           *)
(*                                                                         *)
(* A path is a sequence of names and slashes.  A route is named by the     *)
(* names on the way to it from the root, which is <<>>.  A facade is       *)
(* <<"route", node>> or <<"group", number>>.                               *)
(***************************************************************************)
EXTENDS Integers, Sequences, FiniteSets, FiniteSetsExt, SequencesExt, TLC

CONSTANTS Params,      \* names that start with ':'
          Verbs,       \* request methods
          AnyVerbs,    \* the methods any() registers
          Predicates,  \* sets of segments a parameter can be restricted to
          Apps         \* applications: the patterns they register, the paths they
                       \* are asked for, and bounds on their groups and calls

ASSUME RouterAssumption ==
  /\ AnyVerbs \subseteq Verbs
  /\ \A a \in Apps : {a.groups, a.calls} \subseteq Nat

VARIABLES app, route,     \* the nodes of the trie
          groups,    \* the group proxies, in the order of their creation
          members,   \* members[g]: the routes registered through group g
          bodies,    \* groups whose body is running, innermost last
          calls,
          overflow,  \* a call recursed without end
          last       \* the request that was handled last

routerVars == <<app, route, groups, members, bodies, calls, overflow, last>>

Everything == {"any"}  \* no predicate
NewRoute ==
  [static |-> {}, params |-> <<>>, wild |-> FALSE, accepts |-> Everything,
   targets |-> [v \in Verbs |-> 0], stack |-> <<>>]

NoAnswer == [path |-> <<>>, verb |-> "", node |-> <<>>, captures |-> {}, how |-> <<>>, target |-> TRUE,
            status |-> 0, trace |-> <<>>]

RouterInit ==
  /\ app \in Apps
  /\ route = (<<>> :> NewRoute)
  /\ groups = <<>>
  /\ members = <<>>
  /\ bodies = <<>>
  /\ calls = 0
  /\ overflow = FALSE
  /\ last = NoAnswer

------------------------------------------------------------------------------
(* Paths *)

Strip(p) == IF p # <<>> /\ Head(p) = "/" THEN Tail(p) ELSE p
Segment(p) == IF Head(p) = "/" THEN "" ELSE Head(p)
Rest(p) == IF Head(p) = "/" THEN Tail(p) ELSE SubSeq(p, 3, Len(p))

------------------------------------------------------------------------------
(* Registration *)

\* The trie r with a child of node n for one segment of a pattern; the lists
\* of children are looked up by name, and only params keeps their order.
Grow(r, n, name) ==
  LET c == Append(n, name)
      linked == CASE name = "*"        -> [r EXCEPT ![n].wild = TRUE]
                  [] name \in Params   -> [r EXCEPT ![n].params = Append(@, name)]
                  [] OTHER             -> [r EXCEPT ![n].static = @ \cup {name}]
  IN  IF c \in DOMAIN r THEN r ELSE linked @@ (c :> NewRoute)

\* child(): the trie with the nodes of the pattern p below n, and its last node.
RECURSIVE Descend(_, _, _)
Descend(r, n, p) ==
  IF p = <<>> THEN [trie |-> r, node |-> n]
  ELSE LET name == IF Segment(p) = "" THEN "*" ELSE Segment(p)
           c == Append(n, name)
       IN  IF name = "*" THEN [trie |-> Grow(r, n, name), node |-> c]
                         ELSE Descend(Grow(r, n, name), c, Rest(p))

Child(n, p) == Descend(route, n, Strip(p))

\* The route that resolve() of a facade starts from.
RECURSIVE Base(_)
Base(f) == IF f[1] = "route" THEN f[2] ELSE Base(groups[f[2]].inner)

\* set_target for the methods of one call; a second target replaces the first.
Targets(r, n, verbs) ==
  [r EXCEPT ![n].targets = [v \in Verbs |-> IF v \in verbs THEN calls + 1 ELSE @[v]]]

\* any(t) and method(m, t) without a path: every proxy on the way records its
\* own inner facade, the route at the end gets the target.
RECURSIVE RecordsInner(_, _)
RecordsInner(gs, f) ==
  IF f[1] = "route" THEN gs
  ELSE LET inner == gs[f[2]].inner
       IN  RecordsInner([gs EXCEPT ![f[2]].touched = Append(@, inner)], inner)

\* The history of what was registered through which group.
Joins(f, n) ==
  [g \in DOMAIN members |-> IF f = <<"group", g>> THEN members[g] \cup {n} ELSE members[g]]

Call == UNCHANGED app /\ calls < app.calls /\ calls' = calls + 1 /\ ~overflow /\ last = NoAnswer

Register(f, verbs) ==
  /\ Call
  /\ route' = Targets(route, Base(f), verbs)
  /\ groups' = RecordsInner(groups, f)
  /\ members' = Joins(f, Base(f))
  /\ UNCHANGED <<bodies, overflow, last>>

\* any(path, t) and method(m, path, t).
RegisterPath(f, p, verbs) ==
  LET at == Child(Base(f), p)
  IN  /\ Call
      /\ route' = Targets(at.trie, at.node, verbs)
      /\ groups' = IF f[1] = "route" THEN groups
                   ELSE [groups EXCEPT ![f[2]].touched = Append(@, <<"route", at.node>>)]
      /\ members' = Joins(f, at.node)
      /\ UNCHANGED <<bodies, overflow, last>>

SetPredicate(r, n, accepted) == [r EXCEPT ![n].accepts = accepted]

Param(f, name, accepted) ==
  LET at == Child(Base(f), <<name>>)
  IN  /\ Call
      /\ route' = SetPredicate(at.trie, at.node, accepted)
      /\ UNCHANGED <<groups, members, bodies, overflow, last>>

\* The routes prepend() and append() of a facade reach, in order, or "loop"
\* when the facades refer to each other; d is the depth of the recursion.
RECURSIVE FanOut(_, _)
FanOut(f, d) ==
  IF f[1] = "route" THEN <<f[2]>>
  ELSE IF d > Len(groups) THEN <<<<"loop">>>>
  ELSE FlattenSeq([i \in DOMAIN groups[f[2]].touched |-> FanOut(groups[f[2]].touched[i], d + 1)])

\* Mutant: a group keeps no note of the groups inside it.
NestedForgotten == groups

\* What the outer group records when the body of an inner one ends.
NestedRecorded ==
  LET g == Last(bodies)
      inner == groups[g].inner
  IN  IF inner[1] = "route" THEN groups
      ELSE [groups EXCEPT ![inner[2]].touched = Append(@, <<"group", g>>)]

GroupBegins(f) ==
  /\ Len(groups) < app.groups /\ ~overflow /\ last = NoAnswer
  /\ groups' = Append(groups, [inner |-> f, touched |-> <<>>])
  /\ members' = Append(members, {})
  /\ bodies' = Append(bodies, Len(groups) + 1)
  /\ UNCHANGED <<app, route, calls, overflow, last>>

GroupEnds ==
  /\ bodies # <<>> /\ ~overflow
  /\ groups' = NestedRecorded
  /\ members' = LET g == Last(bodies)
                IN  IF groups[g].inner[1] = "route" THEN members
                    ELSE [members EXCEPT ![groups[g].inner[2]] = @ \cup members[g]]
  /\ bodies' = Front(bodies)
  /\ UNCHANGED <<app, route, calls, overflow, last>>

Prepended(stack, ms) == ms \o stack
Appended(stack, ms) == stack \o ms

\* prepend() and append(), of a route or of all routes of a group.
Attach(f, m, front) ==
  LET reached == FanOut(f, 0)
      Times(n) == [i \in 1 .. Cardinality({k \in DOMAIN reached : reached[k] = n}) |-> m]
  IN  /\ Call
      /\ overflow' = (<<"loop">> \in ToSet(reached))
      /\ route' = IF overflow' THEN route
                  ELSE [n \in DOMAIN route |->
                          [route[n] EXCEPT !.stack = IF front THEN Prepended(@, Times(n))
                                                              ELSE Appended(@, Times(n))]]
      /\ UNCHANGED <<groups, members, bodies, last>>

------------------------------------------------------------------------------
(* Matching *)

Accepts(n, segment) == route[n].accepts = Everything \/ segment \in route[n].accepts

\* Mutant: the first parameter that leads to a match is taken.
FirstOf(matches) == matches[1]

\* The deepest match of the parameters' matches, the earliest of equal ones.
DeepestOf(matches) ==
  LET best == CHOOSE i \in DOMAIN matches :
                /\ \A k \in DOMAIN matches : matches[k].depth <= matches[i].depth
                /\ \A k \in 1 .. i - 1 : matches[k].depth < matches[i].depth
  IN  matches[best]

\* captures[name] = value, in a copy of the state.
Capture(captures, name, value) ==
  {c \in captures : c[1] # name} \cup {<<name, value>>}

NoMatch == [node |-> <<"none">>, captures |-> {}, depth |-> -1]

\* The order in which the three kinds of children are considered.
Preferred(static, params, wild) ==
  CASE static # NoMatch -> static
    [] params # <<>>    -> DeepestOf(params)
    [] OTHER            -> wild

RECURSIVE RouteMatch(_, _, _, _)
RouteMatch(n, path, captures, depth) ==
  LET p == Strip(path)
      segment == Segment(p)
      Try(name, caught) == RouteMatch(Append(n, name), Rest(p), caught, depth + 1)
      tried == SelectSeq(route[n].params, LAMBDA name : Accepts(Append(n, name), segment))
      matches == SelectSeq([i \in DOMAIN tried |-> Try(tried[i], Capture(captures, tried[i], segment))],
                           LAMBDA m : m # NoMatch)
  IN  IF p = <<>> THEN [node |-> n, captures |-> captures, depth |-> depth]
      ELSE Preferred(IF segment \in route[n].static THEN Try(segment, captures) ELSE NoMatch,
                     matches,
                     IF route[n].wild
                       THEN [node |-> Append(n, "*"), captures |-> Capture(captures, "*", p), depth |-> depth + 1]
                       ELSE NoMatch)

Match(path) == RouteMatch(<<>>, path, {}, 0)

------------------------------------------------------------------------------
(* Handling.  A middleware of kind "scope" is a plugin_scope; others are the
   application's.  how[i] says what the i-th one does: "pass" calls next and
   returns, "stop" answers itself, "before" and "after" throw before or after
   next; for a scope "before" is on_begin and "after" is on_end throwing. *)

Hows == {"pass", "stop", "before", "after"}

\* Mutant: on_end is skipped when the handler fails.
EndUnlessFailed(i, inner, fails) ==
  [trace |-> IF inner.status = 200 THEN inner.trace \o <<<<"end", i>>>> ELSE inner.trace,
   status |-> IF inner.status # 200 THEN inner.status ELSE IF fails THEN 1000 + i ELSE 200]

\* plugin_scope after next: on_end always runs, and its failure counts only
\* when there is no other.
ScopeEnds(i, inner, fails) ==
  [trace |-> Append(inner.trace, <<"end", i>>),
   status |-> IF inner.status > 1000 THEN inner.status ELSE IF fails THEN 1000 + i ELSE inner.status]

PluginScope(i, how, inner) ==
  IF how = "before" THEN [trace |-> <<<<"try", i>>>>, status |-> 1000 + i]
  ELSE ScopeEnds(i, [inner EXCEPT !.trace = <<<<"begin", i>>>> \o @], how = "after")

AppMiddleware(i, how, inner) ==
  CASE how = "before" -> [trace |-> <<<<"try", i>>>>, status |-> 1000 + i]
    [] how = "stop"   -> [trace |-> <<<<"try", i>>>>, status |-> 200]
    [] how = "pass"   -> inner
    [] how = "after"  -> IF inner.status > 1000 THEN inner ELSE [inner EXCEPT !.status = 1000 + i]

\* invoke(index): the calls made, and 200 or 1000 + the number of who threw.
RECURSIVE Invoke(_, _, _, _)
Invoke(stack, how, target, i) ==
  IF i > Len(stack) THEN [trace |-> <<<<"target", i>>>>, status |-> IF target THEN 200 ELSE 1000 + i]
  ELSE LET inner == Invoke(stack, how, target, i + 1)
       IN  IF stack[i] = "scope" THEN PluginScope(i, how[i], inner) ELSE AppMiddleware(i, how[i], inner)

GetTarget(n, verb) == route[n].targets[verb]
HasAnyTarget(n) == \E v \in Verbs : GetTarget(n, v) # 0

\* router::on_handle; 404 is what vpath::handle makes of a declined request.
RouterOnHandle(path, verb, how, target) ==
  LET m == Match(path)
      run == Invoke(route[m.node].stack, how, target, 1)
      answer == [path |-> path, verb |-> verb, node |-> m.node, captures |-> m.captures,
                 how |-> how, target |-> target]
      Refused(status) == answer @@ [status |-> status, trace |-> <<>>]
  IN  CASE m = NoMatch -> Refused(404)
        [] m # NoMatch /\ GetTarget(m.node, verb) # 0 -> answer @@ [status |-> run.status, trace |-> run.trace]
        [] OTHER -> IF HasAnyTarget(m.node) THEN Refused(405) ELSE Refused(404)

ServeRoute(path, verb) ==
  /\ bodies = <<>> /\ ~overflow /\ last = NoAnswer
  /\ LET m == Match(path)
         stack == IF m = NoMatch THEN <<>> ELSE route[m.node].stack
     IN  \E target \in BOOLEAN, how \in [DOMAIN stack -> Hows] :
           last' = RouterOnHandle(path, verb, how, target)
  /\ UNCHANGED <<app, route, groups, members, bodies, calls, overflow>>

------------------------------------------------------------------------------
\* What the application calls: the router, groups, and for middleware also the
\* routes that resolve() returns.
Facades == {<<"route", <<>>>>} \cup {<<"group", g>> : g \in DOMAIN groups}
Routes == {<<"route", n>> : n \in DOMAIN route}

RouterNext ==
  \/ \E f \in Facades, verbs \in {AnyVerbs, Verbs \ AnyVerbs} :
       Register(f, verbs) \/ \E p \in app.patterns : RegisterPath(f, p, verbs)
  \/ \E f \in Facades, name \in Params, accepted \in Predicates : Param(f, name, accepted)
  \/ \E f \in Facades \cup Routes, m \in {"plain", "scope"}, front \in BOOLEAN : Attach(f, m, front)
  \/ \E f \in Facades : GroupBegins(f)
  \/ GroupEnds
  \/ \E path \in app.requests, verb \in Verbs : ServeRoute(path, verb)

------------------------------------------------------------------------------
(* Properties *)

\* The segments of a path, as route_match cuts it.
RECURSIVE Cut(_)
Cut(p) == IF p = <<>> THEN <<>> ELSE <<Segment(p)>> \o Cut(Strip(Rest(p)))

Wild(n) == n # <<>> /\ Last(n) = "*"

\* The pattern of node n fits the segments s.
Fits(n, s) ==
  /\ IF Wild(n) THEN Len(n) <= Len(s) ELSE Len(n) = Len(s)
  /\ \A i \in DOMAIN n : \/ n[i] \in Params /\ Accepts(SubSeq(n, 1, i), s[i])
                         \/ n[i] = s[i]
                         \/ n[i] = "*" /\ i = Len(n)  \* below a catch-all nothing is found

Rank(name) == IF name = "*" THEN 2 ELSE IF name \in Params THEN 1 ELSE 0

FirstDifference(n, m) == Min({i \in DOMAIN n \cap DOMAIN m : n[i] # m[i]})

\* Nothing speaks for m against n: where they part, n is of a preferred kind,
\* or both are parameters and the match that m's branch prefers is no deeper, and
\* if it is as deep its parameter was registered later.
RECURSIVE NotBetter(_, _, _)
NotBetter(m, n, fitting) ==
  LET i == FirstDifference(n, m)
      params == route[SubSeq(n, 1, i - 1)].params
      branch == {b \in fitting : IsPrefix(SubSeq(m, 1, i), b)}
      best == CHOOSE b \in branch : \A c \in branch \ {b} : NotBetter(c, b, fitting)
      Place(name) == CHOOSE k \in DOMAIN params : params[k] = name
  IN  \/ Rank(n[i]) < Rank(m[i])
      \/ /\ Rank(n[i]) = 1 /\ Rank(m[i]) = 1
         /\ Len(best) < Len(n) \/ (Len(best) = Len(n) /\ Place(n[i]) < Place(m[i]))

(* route_match finds a route whenever one fits, prefers exact names to parameters
   and those to the catch-all, takes the deepest of several parameters, and the
   captures are those of the route found, with nothing left of a branch that was
   tried and given up (route.cpp:83-147, CONCEPTS.md:116-129). *)
MatchKeepsPriorities ==
  last # NoAnswer =>
    LET s == Cut(Strip(last.path))
        fitting == {n \in DOMAIN route : Fits(n, s)}
        n == last.node
        named == {i \in DOMAIN n : n[i] \in Params /\ \A k \in i + 1 .. Len(n) : n[k] # n[i]}
    IN  IF fitting = {} THEN n = NoMatch.node
        ELSE /\ n \in fitting
             /\ \A m \in fitting \ {n} : NotBetter(m, n, fitting)
             /\ {c \in last.captures : c[1] # "*"} = {<<n[i], s[i]>> : i \in named}
             /\ \A c \in last.captures : c[1] = "*" => Cut(c[2]) = SubSeq(s, Len(n), Len(s))

(* prepend() and append() of a group reach every route that was registered in
   its body, those of groups inside it included (group_proxy.cpp:35-54), unless
   the call recurses for ever. *)
GroupReachesItsRoutes ==
  [][\A g \in DOMAIN groups, m \in {"plain", "scope"}, front \in BOOLEAN :
       Attach(<<"group", g>>, m, front) /\ ~overflow'
         => \A n \in members[g] : Len(route'[n].stack) > Len(route[n].stack)]_routerVars

(* plugin_scope.hpp:19-28: on_end runs once for every on_begin that returned, the
   inner ones first, and the failure of a handler is what is reported, whatever
   on_end does (plugin_scope.cpp:8-42). *)
ScopesReleaseAndReport ==
  LET stack == route[last.node].stack
      At(what, i) == {k \in DOMAIN last.trace : last.trace[k] = <<what, i>>}
      scopes == {i \in DOMAIN stack : stack[i] = "scope" /\ At("begin", i) # {}}
      threw == At("target", Len(stack) + 1) # {} /\ ~last.target
  IN  last.trace # <<>> =>
        /\ \A i \in scopes : Cardinality(At("end", i)) = 1
        /\ \A i, k \in scopes : i < k => Max(At("end", k)) < Max(At("end", i))
        /\ threw => last.status = 1001 + Len(stack)
        /\ last.status = 200 => \A i \in scopes : last.how[i] # "after"
=============================================================================
