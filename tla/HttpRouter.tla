----------------------------- MODULE HttpRouter -----------------------------
(***************************************************************************)
(* The route table of swifty_http (router.go, trie.go) and the groups of   *)
(* group.go as operators. A path or pattern is the sequence of what stands *)
(* behind its slashes ("" between two of them); one method stands for all, *)
(* each has a table of its own. A prefix given to Router and what is given *)
(* to Get and the like, which need no slash in front, are split the same   *)
(* way, their first element being what precedes the first slash.           *)
(***************************************************************************)
EXTENDS Integers, SequencesExt

CONSTANTS
    Params, CatchAlls,  \* the segments that begin with ':' and with '*'
    Name,               \* what follows that character, for each of them
    Glue(_, _)          \* a part with another one directly behind it

Segments == STRING
Empty == ""

Wild(part) == part \in Params \cup CatchAlls

(* A lone '*' is the one that gives no parameter.                          *)
Names(part, name) ==
    (part \in Params \/ (part \in CatchAlls /\ Name[part] # Empty)) /\ Name[part] = name

(* What follows a '*' part does not count.                                 *)
Ends(parts) == parts # <<>> /\ Last(parts) \in CatchAlls

(* Empty parts are dropped; the loop stops behind a '*' part.              *)
parsePattern(segs) ==
    LET kept[k \in 0 .. Len(segs)] ==
          IF k = 0 THEN <<>>
          ELSE LET parts == kept[k - 1]
               IN  IF segs[k] = Empty \/ Ends(parts) THEN parts ELSE Append(parts, segs[k])
    IN  kept[Len(segs)]

-----------------------------------------------------------------------------
(* The trie: a node is the parts that lead to it, kids are in the order of *)
(* their insertion, a leaf has a pattern.                                  *)

EmptyTrie == [kids |-> [at \in {<<>>} |-> <<>>], leaf |-> {}]

(* Every node on the way gets the next part for a child, unless it has it. *)
insert(trie, parts) ==
    LET way == {SubSeq(parts, 1, h) : h \in 0 .. Len(parts)}
        Kids(at) == IF at \in DOMAIN trie.kids THEN trie.kids[at] ELSE <<>>
        Grows(at) == at \in way /\ at # parts /\ ~Contains(Kids(at), parts[Len(at) + 1])
    IN  [kids |-> [at \in DOMAIN trie.kids \cup way |->
                      IF Grows(at) THEN Append(Kids(at), parts[Len(at) + 1]) ELSE Kids(at)],
         leaf |-> trie.leaf \cup {parts}]

(* Mutant: in the order of the registrations only.                         *)
matchAnyChildren(kids, part) == <<{i \in DOMAIN kids : kids[i] = part \/ Wild(kids[i])}, {}>>

(* The positions of the equal child, and those of the wild ones.           *)
matchChildren(kids, part) ==
    <<{i \in DOMAIN kids : kids[i] = part}, {i \in DOMAIN kids : kids[i] # part /\ Wild(kids[i])}>>

(* A node asks its children, first the equal one, then the wild ones in    *)
(* their order, and takes the first leaf; below is what each of them finds.*)
FirstBelow(at, kids, part, below) ==
    LET match == matchChildren(kids, part)
        Hits(I) == {i \in I : below[Append(at, kids[i])] # {}}
        hits == IF Hits(match[1]) # {} THEN Hits(match[1]) ELSE Hits(match[2])
    IN  IF hits = {} THEN {} ELSE below[Append(at, kids[Min(hits)])]

(* The leaf that is found, or none, by the number of parts that are left.  *)
search(trie, parts) ==
    LET found[left \in 0 .. Len(parts)] ==
          [at \in DOMAIN trie.kids |->
              IF left = 0 \/ Ends(at)
              THEN {at} \cap trie.leaf
              ELSE FirstBelow(at, trie.kids[at], parts[Len(parts) - left + 1], found[left - 1])]
    IN  found[Len(parts)][<<>>]

-----------------------------------------------------------------------------
(* The table a list of patterns makes, one handler each: canonical         *)
(* patterns are the keys of handlers.                                      *)
newRouter == [trie |-> EmptyTrie, handlers |-> [parts \in {} |-> 0]]

addRoute(r, pattern, handler) ==
    LET parts == parsePattern(pattern) IN
    [trie     |-> insert(r.trie, parts),
     handlers |-> [key \in DOMAIN r.handlers \cup {parts} |->
                      IF key = parts THEN handler ELSE r.handlers[key]]]

Table(patterns) ==
    LET made[k \in 0 .. Len(patterns)] ==
          IF k = 0 THEN newRouter ELSE addRoute(made[k - 1], patterns[k], k)
    IN  made[Len(patterns)]

NotFound == [handler |-> 0, params |-> <<>>]

(* What a ':' part stands for is one part, what a '*' part stands for the  *)
(* rest; of two equal names the later one counts.                          *)
getRoute(r, path) ==
    LET parts == parsePattern(path)
        found == search(r.trie, parts)
        n     == CHOOSE leaf \in found : TRUE
        At(e) == CHOOSE i \in DOMAIN n : Names(n[i], e) /\ \A j \in i + 1 .. Len(n) : ~Names(n[j], e)
        Value(i) == IF n[i] \in CatchAlls THEN SubSeq(parts, i, Len(parts)) ELSE <<parts[i]>>
    IN  IF found = {}
        THEN NotFound
        ELSE [handler |-> r.handlers[n],
              params  |-> [e \in {Name[s] : s \in {t \in Range(n) : Names(t, Name[t])}} |->
                              Value(At(e))]]

-----------------------------------------------------------------------------
(* Groups: [prefix, uses], uses the middlewares of the group.              *)

(* A slash is put in front, those at the end are taken away.               *)
normalizePrefix(segs) ==
    LET front == IF segs[1] = Empty THEN Tail(segs) ELSE segs
        Rest(k) == \A i \in k + 1 .. Len(front) : front[i] = Empty
    IN  SubSeq(front, 1, CHOOSE k \in 0 .. Len(front) : Rest(k) /\ (k > 0 => ~Rest(k - 1)))

matchRouterPath(path, prefix) == IsPrefix(prefix, path)

Router(parent, segs, uses) == [prefix |-> parent.prefix \o normalizePrefix(segs), uses |-> uses]

(* addRoute of a group: prefix + comp, which puts no slash in between.     *)
PatternOf(prefix, comp) ==
    IF prefix = <<>> THEN comp
    ELSE LET part == IF comp[1] = Empty THEN Last(prefix) ELSE Glue(Last(prefix), comp[1])
         IN  Front(prefix) \o <<part>> \o Tail(comp)

(* ServeHTTP: the middlewares for a path, the groups in order of creation. *)
Middlewares(groups, path) ==
    FlattenSeq([g \in DOMAIN groups |->
        IF matchRouterPath(path, groups[g].prefix) THEN groups[g].uses ELSE <<>>])

-----------------------------------------------------------------------------
(* A pattern matches a path part by part; a '*' needs one part at least.   *)
Matches(p, s) ==
    /\ IF Ends(p) THEN Len(s) >= Len(p) ELSE Len(s) = Len(p)
    /\ \A i \in 1 .. Len(p) : Wild(p[i]) \/ p[i] = s[i]

(* Something below a was registered before anything below b.               *)
Earlier(routes, a, b) ==
    \E m \in DOMAIN routes : IsPrefix(a, routes[m]) /\ \A l \in 1 .. m : ~IsPrefix(b, routes[l])

(* p before q for a path: where they part, the one equal to the path's     *)
(* part; of two wild ones, the one first registered below what they share. *)
Before(routes, s, p, q) ==
    \E i \in 1 .. Len(p) :
        /\ i <= Len(q) /\ SubSeq(p, 1, i - 1) = SubSeq(q, 1, i - 1) /\ p[i] # q[i]
        /\ p[i] = s[i] \/ (q[i] # s[i] /\ Earlier(routes, SubSeq(p, 1, i), SubSeq(q, 1, i)))

(* What a list of registrations answers to a path: the last handler of the *)
(* best matching pattern, and the path, once its parameters are put into   *)
(* the pattern.                                                            *)
RoutedWell(patterns, path) ==
    LET routes   == [i \in 1 .. Len(patterns) |-> parsePattern(patterns[i])]
        s        == parsePattern(path)
        matching == {p \in Range(routes) : Matches(p, s)}
        answer   == getRoute(Table(patterns), path)
        p        == routes[answer.handler]
        Filled(part) == IF Wild(part) THEN answer.params[Name[part]] ELSE <<part>>
    IN  IF answer.handler = 0
        THEN matching = {}
        ELSE /\ p \in matching
             /\ \A q \in matching \ {p} : Before(routes, s, p, q)
             /\ \A i \in answer.handler + 1 .. Len(routes) : routes[i] # p
             /\ (Cardinality({i \in 1 .. Len(p) : Wild(p[i])}) = Cardinality(DOMAIN answer.params)
                    => FlattenSeq([i \in 1 .. Len(p) |-> Filled(p[i])]) = s)

(* Groups as the program makes them, [parent, segs] each behind the root,  *)
(* every one with a middleware of its own: the parent is there before, and *)
(* what was split at the slashes has one part at least.                    *)
WellMade(specs) ==
    /\ specs \in Seq([parent : Nat, segs : Seq(Segments)])
    /\ \A k \in 1 .. Len(specs) : specs[k].parent \in 1 .. k /\ specs[k].segs # <<>>

Groups(specs) ==
    LET made[k \in 0 .. Len(specs)] ==
          IF k = 0 THEN <<[prefix |-> <<>>, uses |-> <<1>>]>>
          ELSE LET gs == made[k - 1]
               IN  Append(gs, Router(gs[specs[k].parent], specs[k].segs, <<k + 1>>))
    IN  made[Len(specs)]

(* Their prefixes as they were written.                                    *)
AsWritten(specs) ==
    LET made[k \in 0 .. Len(specs)] ==
          IF k = 0 THEN <<<<>>>>
          ELSE LET ws == made[k - 1] IN Append(ws, ws[specs[k].parent] \o specs[k].segs)
    IN  made[Len(specs)]

(* What holds of strings: a part with something behind it is another one,  *)
(* and begins as before.                                                   *)
GluesApart(prefix, comp) ==
    prefix # <<>> /\ comp[1] # Empty /\ ~Wild(Last(prefix)) =>
        LET part == Glue(Last(prefix), comp[1])
        IN  part \in Segments /\ part \notin {Last(prefix), Empty} /\ ~Wild(part)

(* The middleware of a group whose prefix has no wild part runs for the    *)
(* paths that begin with the prefix as it was written, and for no others.  *)
(* To group g, comp is added. Of what that route answers, the middleware   *)
(* of g runs for what has no empty part before the end of the prefix, if   *)
(* comp begins with a slash, and for nothing else: /a's route for x, but   *)
(* not its middleware, gets //a/x, since only the table drops empty parts, *)
(* and what /a adds for a plain "b" is /ab, outside the group.             *)
GroupGuarded(specs, g, comp, path) ==
    LET groups  == Groups(specs)
        prefix  == groups[g].prefix
        runs    == Range(Middlewares(groups, path))
        route   == getRoute(Table(<<PatternOf(prefix, comp)>>), path)
        Static(h) == \A part \in Range(groups[h].prefix) : ~Wild(part)
    IN  /\ \A h \in DOMAIN groups :
              Static(h) => (h \in runs <=> IsPrefix(parsePattern(AsWritten(specs)[h]), path))
        /\ route.handler # 0 /\ Static(g) =>
              (g \in runs <=> /\ prefix = <<>> \/ comp[1] = Empty
                              /\ \A i \in 1 .. Len(prefix) : path[i] # Empty)
=============================================================================
