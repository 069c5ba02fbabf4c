---------------------------- MODULE HomePlanner ----------------------------
(***************************************************************************)
(* The search for a collision-free route to HOME_Q (home_planner.py, and   *)
(* its copy in mantis_follower.py): a ladder of floor scales and, at each, *)
(* five tiers from the straight segment to RRT-Connect.  Arm poses are     *)
(* points of a grid.  The collision model is a clearance per pose: its     *)
(* margin at scale s is that clearance minus s.  Random choices and the    *)
(* moment the deadline passes are nondeterministic.                        *)
(***************************************************************************)
EXTENDS Integers, Sequences, FiniteSets, SequencesExt

CONSTANTS
  N,           \* joints of the arm
  K,           \* grid positions of a joint are 0..K: lo and hi
  Home,        \* HOME_Q
  Wrist, Pan,  \* the joint groups; the others are the upper arm
  Scales,      \* floor_scales, in units of clearance, descending
  Step,        \* rrt_step
  AllowPartial,
  NoRoute,     \* None
  MaxNodes     \* bound: the nodes from which the RRT trees no longer grow

Axes == 1..N
Configs == [Axes -> 0..K]

ASSUME PlannerAssumption ==
  /\ N \in Nat \ {0} /\ K \in Nat
  /\ Home \in Configs /\ Wrist \subseteq Axes /\ Pan \subseteq Axes
  /\ Scales \in Seq(Nat) /\ Scales # <<>>
  /\ Step \in Nat \ {0} /\ AllowPartial \in BOOLEAN /\ MaxNodes \in Nat

VARIABLES
  clear,   \* the world: clearance of every pose
  plan,    \* where the search is: "idle", "scale", a tier, "connect", "smooth", "done"
  q0,      \* the pose it starts from
  left,    \* scales still to try
  scale, floor,
  expired, \* the deadline has passed
  pts,     \* route under construction, from q0
  trees,   \* RRT: for each root the chains from it to the nodes of its tree
  turn,    \* RRT: the tree that grows
  tip, limb, \* RRT: the new node, and the branch of the other tree that reaches for it
  best,    \* best_partial
  answer   \* what plan() returns

planner == <<plan, q0, left, scale, floor, expired, pts, trees, turn, tip, limb, best, answer>>

-----------------------------------------------------------------------------
(* Geometry *)

Dist(a, b) == IF a < b THEN b - a ELSE a - b
Largest(S) == CHOOSE x \in S : \A y \in S : y <= x
Least(S) == CHOOSE x \in S : \A y \in S : x <= y
\* The largest joint difference, for every two poses.
Gaps == [a \in Configs |-> [b \in Configs |-> Largest({Dist(a[i], b[i]) : i \in Axes})]]
Gap(a, b) == Gaps[a][b]

\* The grid poses around the segment from a to b, for every a and b.
SegmentPoses ==
  [a \in Configs |-> [b \in Configs |->
     LET n == IF a = b THEN 1 ELSE Gap(a, b)
     IN  {c \in Configs : \E k \in 0..n : \A i \in Axes :
            Dist(n * c[i], n * a[i] + k * (b[i] - a[i])) < n}]]
Samples(a, b) == SegmentPoses[a][b]

Margin(c, s) == clear[c] - s
EdgeMargin(a, b) == Least({Margin(c, scale) : c \in Samples(a, b)})
Clear(a, b) == \A c \in Samples(a, b) : Margin(c, scale) >= floor

RouteSamples(path) == UNION {Samples(path[k], path[k + 1]) : k \in 1..Len(path) - 1}

Steer(a, b) ==
  LET n == Gap(a, b)
  IN  IF n <= Step THEN b ELSE [i \in Axes |-> a[i] + ((b[i] - a[i]) * Step) \div n]

-----------------------------------------------------------------------------
(* The call and the ladder of scales *)

StartPlan(q, minScale) ==
  /\ plan' = "scale"
  /\ q0' = q /\ left' = SubSeq(Scales, minScale + 1, Len(Scales))
  /\ expired' = FALSE /\ best' = NoRoute /\ answer' = NoRoute
  /\ UNCHANGED <<scale, floor, pts, trees, turn, tip, limb>>

\* Seeded fault: the floor of a start inside the cushion is not relative to it.
FloorAnywhere(s) == IF Margin(q0, s) < 0 THEN -Largest({-clear[c] : c \in Configs}) - s ELSE 0

\* Never deeper than the pose the arm is in.
Floor(s) == IF Margin(q0, s) < 0 THEN Margin(q0, s) ELSE 0

NextScale ==
  /\ plan = "scale" /\ left # <<>>
  /\ scale' = Head(left) /\ left' = Tail(left) /\ floor' = Floor(Head(left))
  /\ plan' = IF Margin(Home, Head(left)) < floor' THEN "scale" ELSE "direct"
  /\ UNCHANGED <<q0, expired, pts, trees, turn, tip, limb, best, answer>>

\* Every scale has been tried: the best partial route, if those are allowed.
GiveUp ==
  /\ plan = "scale" /\ left = <<>>
  /\ plan' = "done"
  /\ answer' = IF AllowPartial THEN best ELSE NoRoute
  /\ UNCHANGED <<q0, left, scale, floor, expired, pts, trees, turn, tip, limb, best>>

Deadline ==
  /\ plan \notin {"idle", "done"} /\ ~expired
  /\ expired' = TRUE
  /\ UNCHANGED <<plan, q0, left, scale, floor, pts, trees, turn, tip, limb, best, answer>>

\* Out of time before a tier: the rest of this scale is left out.
Break ==
  /\ plan \in {"direct", "staged", "greedy", "detour"} /\ expired
  /\ plan' = "scale" /\ pts' = <<>>
  /\ UNCHANGED <<q0, left, scale, floor, expired, trees, turn, tip, limb, best, answer>>

\* A tier returns a route (from q0): complete, or a partial that gains enough to be kept.
Returns(path, how, next) ==
  LET last == path[Len(path)]
      gain == Gap(q0, Home) - Gap(last, Home)
      found == [path |-> Tail(path), scale |-> scale, how |-> how, complete |-> last = Home,
                gain |-> gain]
  IN  IF last = Home
      THEN answer' = found /\ plan' = "done" /\ UNCHANGED best
      ELSE /\ best' = IF gain > 0 /\ (best = NoRoute \/ gain > best.gain) THEN found ELSE best
           /\ plan' = next /\ UNCHANGED answer

-----------------------------------------------------------------------------
(* The cheap tiers *)

Direct ==
  /\ plan = "direct" /\ ~expired
  /\ IF Clear(q0, Home)
     THEN Returns(<<q0, Home>>, "direct", "staged")
     ELSE plan' = "staged" /\ UNCHANGED <<best, answer>>
  /\ UNCHANGED <<q0, left, scale, floor, expired, pts, trees, turn, tip, limb>>

Upper == Axes \ (Wrist \cup Pan)
Groups == <<Wrist, Upper, Pan \cup Upper, Upper \cup Wrist, Pan>>

\* Seeded fault: only the first of the two segments is checked.
ByGroupHalf(q, g) ==
  LET w == [i \in Axes |-> IF i \in g THEN Home[i] ELSE q[i]]
  IN  IF g # {} /\ g # Axes /\ w # q /\ Clear(q, w) THEN <<q, w, Home>> ELSE NoRoute

\* Joint group g goes home first, then the rest.
ByGroup(q, g) ==
  LET w == [i \in Axes |-> IF i \in g THEN Home[i] ELSE q[i]]
  IN  IF g # {} /\ g # Axes /\ w # q /\ Clear(q, w) /\ Clear(w, Home)
      THEN <<q, w, Home>> ELSE NoRoute

\* The first group that works among those tried before the deadline, the first n.
StagedRoute(q, n) ==
  LET works == {k \in 1..n : ByGroup(q, Groups[k]) # NoRoute}
  IN  IF works = {} THEN NoRoute ELSE ByGroup(q, Groups[Least(works)])

Staged ==
  /\ plan = "staged" /\ ~expired
  /\ \E n \in 0..5 :
       LET path == StagedRoute(q0, n)
       IN  /\ expired' = (path = NoRoute /\ n < 5)
           /\ IF path # NoRoute THEN Returns(path, "staged", "greedy")
              ELSE plan' = "greedy" /\ UNCHANGED <<best, answer>>
  /\ pts' = <<q0>>
  /\ UNCHANGED <<q0, left, scale, floor, trees, turn, tip, limb>>

\* The largest of three moves of joint i towards its home value that is clear; no move is
\* smaller than a grid step.
JointMove(q, i) ==
  LET d == Home[i] - q[i]
      far == {m \in {d, (6 * d) \div 10, (3 * d) \div 10} :
                m # 0 /\ Clear(q, [q EXCEPT ![i] = @ + m])}
  IN  IF far = {} THEN q
      ELSE [q EXCEPT ![i] = @ + (CHOOSE m \in far : \A o \in far : Dist(o, 0) <= Dist(m, 0))]

\* One joint at a time: the move that keeps the most clearance.
Greedy ==
  /\ plan = "greedy" /\ ~expired
  /\ LET cur == pts[Len(pts)]
         moves == {JointMove(cur, i) : i \in Axes} \ {cur}
     IN  IF Len(pts) - 1 > 3 * N \/ (cur # Home /\ moves = {})
         THEN plan' = "detour" /\ pts' = <<>> /\ UNCHANGED <<best, answer>>
         ELSE IF cur = Home
         THEN /\ pts' = <<>>
              /\ IF Len(pts) > 1 THEN Returns(pts, "greedy", "detour")
                 ELSE plan' = "detour" /\ UNCHANGED <<best, answer>>
         ELSE /\ \E m \in moves :
                   /\ \A o \in moves : EdgeMargin(cur, o) <= EdgeMargin(cur, m)
                   /\ pts' = Append(pts, m)
              /\ UNCHANGED <<plan, best, answer>>
  /\ UNCHANGED <<q0, left, scale, floor, expired, trees, turn, tip, limb>>

\* The k-th way to back one joint out: by one, two or three steps, joint by joint, both ways.
BackOut(k) ==
  LET delta == (k - 1) \div (2 * N) + 1
      i == ((k - 1) % (2 * N)) \div 2 + 1
      to == IF k % 2 = 1 THEN q0[i] + delta ELSE q0[i] - delta
  IN  [q0 EXCEPT ![i] = IF to < 0 THEN 0 ELSE IF to > K THEN K ELSE to]

DetourRoute(k) ==
  LET w == BackOut(k)
      rest == IF Clear(w, Home) THEN <<w, Home>> ELSE StagedRoute(w, 5)
  IN  IF w = q0 \/ ~Clear(q0, w) \/ rest = NoRoute THEN NoRoute ELSE <<q0>> \o rest

Detour ==
  /\ plan = "detour" /\ ~expired
  /\ \E n \in 0..6 * N :
       LET works == {k \in 1..n : DetourRoute(k) # NoRoute}
       IN  /\ expired' = (works = {} /\ n < 6 * N)
           /\ IF works # {} THEN Returns(DetourRoute(Least(works)), "detour", "rrt")
              ELSE /\ plan' = IF n < 6 * N THEN "scale" ELSE "rrt"
                   /\ UNCHANGED <<best, answer>>
  /\ trees' = [start |-> {<<q0>>}, goal |-> {<<Home>>}]
  /\ turn' = "start"
  /\ UNCHANGED <<q0, left, scale, floor, pts, tip, limb>>

-----------------------------------------------------------------------------
(* RRT-Connect *)

Other(t) == IF t = "start" THEN "goal" ELSE "start"
Node(chain) == chain[Len(chain)]
Nearest(tree, q) == {c \in tree : \A o \in tree : Gap(Node(c), q) <= Gap(Node(o), q)}

\* A random pose, and one step towards it from the nearest node of the tree whose turn it is.
Grow ==
  /\ plan = "rrt" /\ ~expired
  /\ Cardinality(trees["start"]) + Cardinality(trees["goal"]) < MaxNodes
  /\ \E qr \in Configs : \E a \in Nearest(trees[turn], qr) :
       LET qn == Steer(Node(a), qr)
       IN  /\ qn # Node(a)
           /\ IF Clear(Node(a), qn)
              THEN /\ trees' = [trees EXCEPT ![turn] = @ \cup {Append(a, qn)}]
                   /\ tip' = Append(a, qn)
                   /\ limb' \in Nearest(trees[Other(turn)], qn)
                   /\ plan' = "connect" /\ UNCHANGED turn
              ELSE turn' = Other(turn) /\ UNCHANGED <<plan, trees, tip, limb>>
  /\ UNCHANGED <<q0, left, scale, floor, expired, pts, best, answer>>

\* The two chains that meet, as a route from the arm to home.
Joined(grown, reached) ==
  LET back == Tail(Reverse(reached))
  IN  IF turn = "goal" THEN Reverse(back) \o Reverse(grown) ELSE grown \o back

\* The other tree reaches for the new node, step by step, until it meets it or is blocked.
Connect ==
  /\ plan = "connect"
  /\ LET qs == Steer(Node(limb), Node(tip))
     IN  IF expired \/ ~Clear(Node(limb), qs)
         THEN /\ turn' = Other(turn) /\ plan' = "rrt" /\ tip' = <<>> /\ limb' = <<>>
              /\ UNCHANGED <<pts, trees>>
         ELSE /\ trees' = [trees EXCEPT ![Other(turn)] = @ \cup {Append(limb, qs)}]
              /\ limb' = Append(limb, qs)
              /\ IF qs = Node(tip)
                 THEN pts' = Joined(tip, limb') /\ plan' = "smooth"
                 ELSE UNCHANGED <<pts, plan>>
              /\ UNCHANGED <<turn, tip>>
  /\ UNCHANGED <<q0, left, scale, floor, expired, best, answer>>

\* The deadline: the branch of the start tree that came closest to home.
RrtEnds ==
  /\ plan = "rrt" /\ expired
  /\ LET closest == Nearest(trees["start"], Home)
     IN  IF <<q0>> \in closest
         THEN plan' = "scale" /\ UNCHANGED pts
         ELSE pts' \in closest /\ plan' = "smooth"
  /\ UNCHANGED <<q0, left, scale, floor, expired, trees, turn, tip, limb, best, answer>>

\* Two points of the route that see each other.
Shortcut ==
  /\ plan = "smooth"
  /\ \E i \in 1..Len(pts) : \E j \in i + 2..Len(pts) :
       /\ Clear(pts[i], pts[j])
       /\ pts' = SubSeq(pts, 1, i) \o SubSeq(pts, j, Len(pts))
  /\ UNCHANGED <<plan, q0, left, scale, floor, expired, trees, turn, tip, limb, best, answer>>

Smoothed ==
  /\ plan = "smooth"
  /\ Returns(pts, "rrt", "scale")
  /\ pts' = <<>> /\ tip' = <<>> /\ limb' = <<>> \* dropped
  /\ trees' = [start |-> {}, goal |-> {}] /\ turn' = "start"
  /\ UNCHANGED <<q0, left, scale, floor, expired>>

-----------------------------------------------------------------------------

PlannerInit ==
  /\ plan = "idle" /\ q0 = Home /\ left = <<>> /\ scale = 0 /\ floor = 0 /\ expired = FALSE
  /\ pts = <<>> /\ trees = [start |-> {}, goal |-> {}] /\ turn = "start"
  /\ tip = <<>> /\ limb = <<>> /\ best = NoRoute /\ answer = NoRoute

Search ==
  \/ NextScale \/ GiveUp \/ Break \/ Direct \/ Staged \/ Greedy \/ Detour
  \/ Grow \/ Connect \/ RrtEnds \/ Shortcut \/ Smoothed

-----------------------------------------------------------------------------
(* Properties *)

\* Every pose that the segments of a returned route pass, over stages, backing out, joined trees
\* and shortcuts, is at least as clear as the floor: clear at the route's scale, or no deeper
\* inside it than the arm is at the start.  A complete route ends at home, a partial one strictly
\* nearer to it than it started.
RouteCertified ==
  answer # NoRoute =>
    LET last == answer.path[Len(answer.path)]
    IN  /\ \A c \in RouteSamples(<<q0>> \o answer.path) :
             Margin(c, answer.scale)
               >= IF Margin(q0, answer.scale) < 0 THEN Margin(q0, answer.scale) ELSE 0
        /\ IF answer.complete THEN last = Home ELSE Gap(last, Home) < Gap(q0, Home)

\* An arm that is inside the cushion is not led to a pose with less clearance
\* (home_planner.py:38 and the warning at 103).
NeverDeeper ==
  (answer # NoRoute /\ Margin(q0, Scales[1]) < 0) =>
    \A c \in RouteSamples(<<q0>> \o answer.path) : clear[c] >= clear[q0]
=============================================================================
