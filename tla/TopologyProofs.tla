---------------------------- MODULE TopologyProofs ----------------------------
(***************************************************************************)
(* For every configuration: in a regular cluster the ranges of threads in  *)
(* Trainer::Start and the divisions of ProcsIDOf agree, and in any cluster *)
(* a worker group's net is trained in one process only.                    *)
(***************************************************************************)
EXTENDS Topology, Division

\* Exact division.
LEMMA DividesFacts ==
  ASSUME NEW a \in Nat \ {0}, NEW b \in Nat, Divides(a, b)
  PROVE  b \div a \in Nat /\ b = a * (b \div a)
  BY DivFacts DEF Divides

----------------------------------------------------------------------------
(* The threads of a process *)

\* The six numbers of a configuration, and the process counts made of them.
LEMMA ShapeFacts ==
  ASSUME NEW k \in Shape
  PROVE  /\ k.nworker_groups \in Nat \ {0}
         /\ k.nserver_groups \in Nat \ {0}
         /\ k.nworkers_per_group \in Nat \ {0}
         /\ k.nservers_per_group \in Nat \ {0}
         /\ k.nworkers_per_procs \in Nat \ {0}
         /\ k.nservers_per_procs \in Nat \ {0}
         /\ k.server_worker_separate \in BOOLEAN
         /\ NWorkerProcs(k) \in Nat
         /\ NServerProcs(k) \in Nat
         /\ NProcs(k) \in Nat
<1>1. /\ k.nworker_groups * k.nworkers_per_group \in Nat
      /\ k.nserver_groups * k.nservers_per_group \in Nat
  BY DEF Shape
<1>2. NWorkerProcs(k) \in Nat /\ NServerProcs(k) \in Nat
  BY <1>1, DivFacts DEF Shape, NWorkerProcs, NServerProcs
<1> QED  BY <1>2 DEF Shape, NProcs

\* Process pid launches a worker 0 of group g.
Leads(k, pid, g) ==
  /\ g \in WorkerGroupsOf(k, pid)
  /\ FirstWorker(k, pid) = 0

\* A process that runs worker 0 of a group leads the group.
LEMMA WorkerZero ==
  ASSUME NEW k \in Shape, NEW pid \in 0 .. NProcs(k) - 1, NEW g,
         <<"worker", g, 0>> \in ThreadsOf(k, pid)
  PROVE  HasWorker(k, pid) /\ Leads(k, pid, g)
<1>1. <<"worker", g, 0>> \notin ServersOf(k, pid)
  BY DEF ServersOf
<1>2. HasWorker(k, pid) /\ <<"worker", g, 0>> \in WorkersOf(k, pid)
  BY <1>1 DEF ThreadsOf
<1>3. PICK i \in 0 .. k.nworkers_per_group - 1 :
        g \in WorkerGroupsOf(k, pid) /\ FirstWorker(k, pid) + i = 0
  BY <1>2 DEF WorkersOf
<1>4. pid \in Nat /\ pid * k.nworkers_per_procs \in Nat
  BY ShapeFacts
<1>5. FirstWorker(k, pid) \in Nat
  BY <1>4, ShapeFacts, DivFacts DEF FirstWorker
<1> QED  BY <1>2, <1>3, <1>5, ShapeFacts DEF Leads

\* Where a group is spread over processes, its leader's process starts at
\* exactly the group's first worker.
LEMMA LeadsSpread ==
  ASSUME NEW k \in Shape, NEW pid \in Nat, NEW g, Spread(k), Leads(k, pid, g)
  PROVE  g \in Nat /\ k.nworkers_per_procs * pid = k.nworkers_per_group * g
<1>1. pid * k.nworkers_per_procs \in Nat
      /\ pid * k.nworkers_per_procs = k.nworkers_per_procs * pid
  BY ShapeFacts
<1>2. /\ g = (pid * k.nworkers_per_procs) \div k.nworkers_per_group
      /\ (pid * k.nworkers_per_procs) % k.nworkers_per_group = 0
  BY DEF Leads, WorkerGroupsOf, FirstWorker
<1> DEFINE a == pid * k.nworkers_per_procs
           b == k.nworkers_per_group
<1>3. a \in Nat /\ b \in Nat \ {0} /\ g = a \div b /\ a % b = 0
  BY <1>1, <1>2, ShapeFacts
<1> HIDE DEF a, b
<1>4. g \in Nat /\ a = b * g + 0
  BY <1>3, DivFacts
<1>5. b * g \in Nat
  BY <1>3, <1>4
<1> QED  BY <1>1, <1>4, <1>5 DEF a, b

\* Where a process has several groups they are consecutive.
LEMMA LeadsShared ==
  ASSUME NEW k \in Shape, NEW pid \in Nat, NEW g, ~ Spread(k), Leads(k, pid, g),
         Divides(k.nworkers_per_group, k.nworkers_per_procs)
  PROVE  LET n == k.nworkers_per_procs \div k.nworkers_per_group IN
         /\ n \in Nat \ {0}
         /\ k.nworkers_per_procs = k.nworkers_per_group * n
         /\ g \in Nat
         /\ n * pid <= g /\ g < n * (pid + 1)
<1> DEFINE n == k.nworkers_per_procs \div k.nworkers_per_group
<1>1. n \in Nat /\ k.nworkers_per_procs = k.nworkers_per_group * n
  BY ShapeFacts, DividesFacts
<1>2. g \in (pid * n) .. ((pid + 1) * n - 1)
  BY DEF Leads, WorkerGroupsOf
<1> HIDE DEF n
<1>3. n # 0
  BY <1>1, ShapeFacts
<1>4. pid * n = n * pid /\ (pid + 1) * n = n * (pid + 1) /\ n * pid \in Nat
      /\ n * (pid + 1) \in Nat
  BY <1>1
<1>5. g \in Nat /\ n * pid <= g /\ g < n * (pid + 1)
  BY <1>2, <1>4
<1> QED  BY <1>1, <1>3, <1>5 DEF n

\* Two processes do not lead the same group.
LEMMA LeaderUnique ==
  ASSUME NEW k \in Shape, NEW p \in Nat, NEW q \in Nat, NEW g,
         Spread(k) \/ Divides(k.nworkers_per_group, k.nworkers_per_procs),
         Leads(k, p, g), Leads(k, q, g)
  PROVE  p = q
<1>1. CASE Spread(k)
  <2>1. k.nworkers_per_procs * p = k.nworkers_per_procs * q
    BY <1>1, LeadsSpread
  <2> QED  BY <2>1, Cancel, ShapeFacts
<1>2. CASE ~ Spread(k)
  <2> DEFINE n == k.nworkers_per_procs \div k.nworkers_per_group
  <2>1. /\ n \in Nat \ {0} /\ g \in Nat
        /\ n * p <= g /\ g < n * (p + 1)
        /\ n * q <= g /\ g < n * (q + 1)
    BY <1>2, LeadsShared
  <2> HIDE DEF n
  <2>2. /\ n * p \in Nat /\ n * (p + 1) \in Nat
        /\ n * q \in Nat /\ n * (q + 1) \in Nat
    BY <2>1
  <2>3. n * p < n * (q + 1) /\ n * q < n * (p + 1)
    BY <2>1, <2>2
  <2>4. p < q + 1 /\ q < p + 1
    BY <2>1, <2>3, Cancel
  <2> QED  BY <2>4
<1> QED  BY <1>1, <1>2

----------------------------------------------------------------------------
(* Where messages are routed *)

\* Thread a runs where ProcsIDOf says, in a process of the cluster.
Placed(k, a) ==
  /\ ProcsIDOf(k, a) \in 0 .. NProcs(k) - 1
  /\ a \in ThreadsOf(k, ProcsIDOf(k, a))

\* In a regular cluster no process has more workers than the configured
\* groups need.
LEMMA RegularWorkers ==
  ASSUME NEW k \in Shape, Regular(k), NEW pid \in Nat, pid < NProcs(k),
         HasWorker(k, pid)
  PROVE  pid < NWorkerProcs(k)
  BY ShapeFacts DEF Regular, HasWorker, NProcs

\* An answer is routed to the process whose worker asked, and the worker's
\* group is one of those configured.
LEMMA WorkerPlaced ==
  ASSUME NEW k \in Shape, Regular(k), NEW pid \in 0 .. NProcs(k) - 1, NEW g,
         <<"worker", g, 0>> \in ThreadsOf(k, pid)
  PROVE  /\ Placed(k, <<"worker", g, 0>>)
         /\ g \in Nat
         /\ g < k.nworker_groups
<1> DEFINE wpg == k.nworkers_per_group
           wpp == k.nworkers_per_procs
           wg  == k.nworker_groups
           nw  == NWorkerProcs(k)
<1>1. /\ wpg \in Nat \ {0} /\ wpp \in Nat \ {0} /\ wg \in Nat \ {0} /\ nw \in Nat
      /\ NProcs(k) \in Nat /\ pid \in Nat /\ pid < NProcs(k)
  BY ShapeFacts
<1>2. HasWorker(k, pid) /\ Leads(k, pid, g)
  BY WorkerZero
<1>3. pid < nw
  BY <1>1, <1>2, RegularWorkers
<1>4. wg * wpg \in Nat
  BY <1>1
<1>5. wg * wpg = wpp * nw /\ wg * wpg = wpg * wg
  <2>1. wg * wpg = wpp * nw
    BY <1>1, <1>4, DividesFacts DEF Regular, NWorkerProcs
  <2> QED  BY <1>1, <2>1
<1>6. 0 \div wpp = 0
  <2>1. wpp * 0 + 0 = 0
    BY <1>1
  <2> QED  BY <1>1, <2>1, DivUnique
<1>7. /\ g \in Nat /\ g < wg
      /\ (g * wpg) \div wpp = pid
  <2>1. CASE Spread(k)
    <3>1. g \in Nat /\ wpp * pid = wpg * g
      BY <1>1, <1>2, <2>1, LeadsSpread
    <3> HIDE DEF wpg, wpp, wg, nw
    <3>2. wpp * pid < wpp * nw
      <4>1. wpp * (pid + 1) <= wpp * nw
        BY <1>1, <1>3, Monotone
      <4>2. wpp * (pid + 1) = wpp * pid + wpp /\ wpp * pid \in Nat /\ wpp * nw \in Nat
        BY <1>1
      <4> QED  BY <1>1, <4>1, <4>2
    <3>3. g < wg
      BY <1>1, <1>5, <3>1, <3>2, Cancel
    <3>4. g * wpg = wpp * pid + 0 /\ g * wpg \in Nat
      BY <1>1, <3>1
    <3>5. (g * wpg) \div wpp = pid
      BY <1>1, <3>4, DivUnique
    <3> QED  BY <3>1, <3>3, <3>5
  <2>2. CASE ~ Spread(k)
    <3> DEFINE n == wpp \div wpg
    <3>1. Divides(wpg, wpp)
      <4>1. wpg < wpp
        BY <1>1, <2>2 DEF Spread
      <4>2. wpg % wpp = wpg
        <5> HIDE DEF wpg, wpp
        <5> QED  BY <1>1, <4>1, DivSmall
      <4> QED  BY <1>1, <4>2 DEF Regular, Divides
    <3>2. /\ n \in Nat \ {0} /\ wpp = wpg * n
          /\ g \in Nat /\ n * pid <= g /\ g < n * (pid + 1)
      BY <1>1, <1>2, <2>2, <3>1, LeadsShared
    <3> HIDE DEF wpg, wpp, wg, nw, n
    <3>3. n * pid \in Nat /\ n * (pid + 1) \in Nat /\ n * (pid + 1) = n * pid + n
      BY <1>1, <3>2
    <3>4. PICK r \in Nat : g = n * pid + r /\ r < n
      <4>1. g - n * pid \in Nat /\ g - n * pid < n
        BY <3>2, <3>3
      <4>2. g = n * pid + (g - n * pid)
        BY <3>2, <3>3
      <4> QED  BY <4>1, <4>2
    <3>5. g * wpg = wpp * pid + wpg * r
      <4>1. (n * pid + r) * wpg = wpg * n * pid + wpg * r
        BY <1>1, <3>2
      <4> QED  BY <3>2, <3>4, <4>1
    <3>6. wpg * r < wpp /\ wpg * r \in Nat
      <4>1. wpg * (r + 1) <= wpg * n
        BY <1>1, <3>2, <3>4, Monotone
      <4>2. wpg * (r + 1) = wpg * r + wpg /\ wpg * r \in Nat
        BY <1>1
      <4> QED  BY <1>1, <3>2, <4>1, <4>2
    <3>7. (g * wpg) \div wpp = pid
      <4> DEFINE a == g * wpg
                 b == wpg * r
      <4>1. a \in Nat /\ b \in Nat /\ b < wpp /\ a = wpp * pid + b
        BY <1>1, <3>2, <3>5, <3>6
      <4> HIDE DEF a, b
      <4>2. a \div wpp = pid
        BY <1>1, <4>1, DivUnique
      <4> QED  BY <4>2 DEF a
    <3>8. g < wg
      <4>1. n * (pid + 1) <= n * nw /\ n * nw \in Nat
        BY <1>1, <1>3, <3>2, Monotone
      <4>2. wpg * wg = wpg * (n * nw)
        BY <1>1, <1>5, <3>2
      <4>3. wg = n * nw
        BY <1>1, <4>1, <4>2, Cancel
      <4> QED  BY <1>1, <3>2, <3>3, <4>1, <4>3
    <3> QED  BY <3>2, <3>7, <3>8
  <2> QED  BY <2>1, <2>2
<1>8. ProcsIDOf(k, <<"worker", g, 0>>) = pid
  BY <1>1, <1>6, <1>7 DEF ProcsIDOf, WorkerProcs
<1> QED  BY <1>1, <1>7, <1>8 DEF Placed

\* A request is routed to a process that launches the server it names.
LEMMA ServerPlaced ==
  ASSUME NEW k \in Shape, Regular(k), NEW g \in Nat, g < k.nworker_groups,
         NEW p \in Nat
  PROVE  Placed(k, ServerFor(k, g, p))
<1> DEFINE spg == k.nservers_per_group
           spp == k.nservers_per_procs
           sg  == k.nserver_groups
           wg  == k.nworker_groups
           ns  == NServerProcs(k)
           n   == spg \div spp
           per == PerServerGroup(k)
           gid == g \div per
           id  == p % spg
           d   == id \div spp
           q   == gid * n + d
           off == IF k.server_worker_separate THEN NWorkerProcs(k) ELSE 0
<1>1. /\ spg \in Nat \ {0} /\ spp \in Nat \ {0} /\ sg \in Nat \ {0} /\ wg \in Nat \ {0}
      /\ ns \in Nat /\ off \in Nat
  BY ShapeFacts
<1>2. n \in Nat \ {0} /\ spg = spp * n
  <2>1. n \in Nat /\ spg = spp * n
    BY <1>1, DividesFacts DEF Regular
  <2> QED  BY <1>1, <2>1
<1>3. per \in Nat \ {0} /\ wg = sg * per
  <2>1. per \in Nat /\ wg = sg * per
    BY <1>1, DividesFacts DEF Regular, PerServerGroup
  <2> QED  BY <1>1, <2>1
<1>4. gid \in Nat /\ gid < sg
  <2> HIDE DEF sg, wg, per
  <2>1. gid \in Nat /\ g % per \in Nat /\ g = per * gid + (g % per)
    BY <1>3, DivFacts
  <2> HIDE DEF gid
  <2>2. per * gid \in Nat /\ sg * per = per * sg
    BY <1>1, <1>3, <2>1
  <2>3. per * sg = wg /\ g < wg
    BY <1>3, <2>2 DEF wg
  <2>4. per * gid < per * sg
    BY <1>1, <2>1, <2>2, <2>3
  <2> QED  BY <1>1, <1>3, <2>1, <2>4, Cancel
<1>5. id \in Nat /\ id < spg
  BY <1>1, DivFacts
<1>6. d \in Nat /\ spp * d <= id /\ spp * d \in Nat
  <2> HIDE DEF spp, id
  <2>1. d \in Nat /\ id % spp \in Nat /\ id = spp * d + (id % spp)
    BY <1>1, <1>5, DivFacts
  <2>2. spp * d \in Nat
    BY <1>1, <2>1
  <2> QED  BY <1>5, <2>1, <2>2
<1>7. ns = sg * n
  <2>1. sg * spg = spp * (sg * n) + 0 /\ sg * n \in Nat /\ sg * spg \in Nat
    <3> HIDE DEF spg, spp, sg, n
    <3> QED  BY <1>1, <1>2
  <2>2. (sg * spg) \div spp = sg * n
    <3> DEFINE a == sg * spg
               b == sg * n
    <3>1. a \in Nat /\ b \in Nat /\ a = spp * b + 0 /\ 0 < spp
      BY <1>1, <2>1
    <3> HIDE DEF a, b, spp
    <3>2. a \div spp = b
      BY <1>1, <3>1, DivUnique
    <3> QED  BY <3>2 DEF a, b
  <2> QED  BY <2>2 DEF NServerProcs
<1>8. d < n
  <2> HIDE DEF spg, spp, n, d, id
  <2>1. spp * d < spp * n
    BY <1>1, <1>2, <1>5, <1>6
  <2> QED  BY <1>1, <1>2, <1>6, <2>1, Cancel
<1>9. q \in Nat /\ q < ns
  <2> HIDE DEF sg, n, gid, d
  <2>1. gid * n + n = n * (gid + 1) /\ sg * n = n * sg /\ gid * n \in Nat
    BY <1>1, <1>2, <1>4
  <2>2. n * (gid + 1) <= n * sg /\ n * sg \in Nat
    BY <1>1, <1>2, <1>4, Monotone
  <2> QED  BY <1>2, <1>4, <1>6, <1>7, <1>8, <2>1, <2>2
<1>10. (gid * spg) \div spp = gid * n
  <2> HIDE DEF spg, spp, n, gid
  <2> DEFINE a == gid * spg
             b == gid * n
  <2>1. a \in Nat /\ b \in Nat /\ a = spp * b + 0 /\ 0 < spp
    BY <1>1, <1>2, <1>4
  <2> HIDE DEF a, b
  <2>2. a \div spp = b
    BY <1>1, <2>1, DivUnique
  <2> QED  BY <2>2 DEF a, b
<1>11. ProcsIDOf(k, ServerFor(k, g, p)) = q + off
  BY <1>10 DEF ProcsIDOf, ServerProcs, ServerFor, Sharding
<1>12. (q * spp) \div spg = gid /\ (q * spp) % spg = spp * d
  <2> HIDE DEF spg, spp, n, gid, d, id
  <2> DEFINE a == q * spp
             r == spp * d
  <2>1. (gid * n + d) * spp = (spp * n) * gid + spp * d
    BY <1>1, <1>2, <1>4, <1>6
  <2>2. a \in Nat /\ r \in Nat /\ r < spg /\ a = spg * gid + r
    BY <1>1, <1>2, <1>5, <1>6, <1>9, <2>1
  <2> HIDE DEF a, r
  <2>3. spg \in Nat \ {0} /\ gid \in Nat
    BY <1>1, <1>4
  <2>4. a \div spg = gid /\ a % spg = r
    BY <2>2, <2>3, DivUnique
  <2> QED  BY <2>4 DEF a, r
<1>13. ServerFor(k, g, p) \in ServersOf(k, q + off)
  <2>1. (q + off) - off = q
    BY <1>1, <1>9
  <2>2. id \in (spp * d) .. (spp * d + spg - 1)
    <3> HIDE DEF spg, spp, d, id
    <3> QED  BY <1>1, <1>5, <1>6
  <2>3. ServersOf(k, q + off) = {<<"server", gid, i>> : i \in (spp * d) .. (spp * d + spg - 1)}
    <3> HIDE DEF q
    <3> QED  BY <1>12, <2>1 DEF ServersOf
  <2> QED  BY <2>2, <2>3 DEF ServerFor, Sharding
<1>14. HasServer(k, q + off) /\ q + off \in 0 .. NProcs(k) - 1
  <2> HIDE DEF q
  <2> QED  BY <1>1, <1>9, ShapeFacts DEF HasServer, NProcs
<1> QED  BY <1>11, <1>13, <1>14 DEF Placed, ThreadsOf

----------------------------------------------------------------------------
(* The invariant *)

\* A process that lives has passed Start's CHECK.
LaunchInv ==
  \A pid \in started \ died :
    Spread(c) \/ ~ HasWorker(c, pid)
      \/ Divides(c.nworkers_per_group, c.nworkers_per_procs)

\* Who has asked leads its group.
AskedInv ==
  \A x \in asked :
    /\ x = <<x[1], x[2]>>
    /\ x[1] \in 0 .. NProcs(c) - 1
    /\ Leads(c, x[1], x[2])
    /\ Spread(c) \/ Divides(c.nworkers_per_group, c.nworkers_per_procs)

\* Both ends of what is under way are placed: an answer goes to where its
\* request came from.
PlacedInv ==
  Regular(c) =>
    \A x \in inbox \cup pipe \cup stuck : Placed(c, x[2].dst) /\ Placed(c, x[2].src)

Inv == c \in Shape /\ LaunchInv /\ AskedInv /\ PlacedInv

\* A request of a worker 0 that runs is placed at both ends.
LEMMA RequestPlaced ==
  ASSUME NEW k \in Shape, Regular(k), NEW pid \in 0 .. NProcs(k) - 1, NEW g,
         <<"worker", g, 0>> \in ThreadsOf(k, pid), NEW p \in Params, NEW type
  PROVE  /\ Placed(k, Request(k, type, g, p).dst)
         /\ Placed(k, Request(k, type, g, p).src)
<1>1. p \in Nat
  BY TopologyAssumption
<1>2. Placed(k, <<"worker", g, 0>>) /\ g \in Nat /\ g < k.nworker_groups
  BY WorkerPlaced
<1>3. Placed(k, ServerFor(k, g, p))
  BY <1>1, <1>2, ServerPlaced
<1>4. /\ Request(k, type, g, p).dst = ServerFor(k, g, p)
      /\ Request(k, type, g, p).src = <<"worker", g, 0>>
  BY DEF Request
<1> QED  BY <1>2, <1>3, <1>4

\* No process has been started and nothing is under way.
LEMMA InitInv == Init => Inv
  BY TopologyAssumption DEF Init, Inv, LaunchInv, AskedInv, PlacedInv

\* Starting a process puts group 0's requests under way, if it leads it.
LEMMA StartInv ==
  ASSUME Inv, NEW pid \in 0 .. NProcs(c) - 1, Start(pid)
  PROVE  Inv'
<1>1. c' = c /\ c \in Shape /\ asked' = asked /\ pipe' = pipe /\ stuck' = stuck
      /\ started' = started \cup {pid}
  BY DEF Start, Inv
<1>2. LaunchInv'
  <2>1. CASE StartFails(pid)
    <3>1. died' = died \cup {pid}
      BY <2>1 DEF Start
    <3> QED  BY <1>1, <3>1 DEF Inv, LaunchInv
  <2>2. CASE ~ StartFails(pid)
    <3>1. died' = died
      BY <2>2 DEF Start
    <3>2. \/ Spread(c) \/ ~ HasWorker(c, pid)
          \/ Divides(c.nworkers_per_group, c.nworkers_per_procs)
      BY <2>2 DEF StartFails, Divides
    <3> QED  BY <1>1, <3>1, <3>2 DEF Inv, LaunchInv
  <2> QED  BY <2>1, <2>2
<1>3. AskedInv'
  BY <1>1 DEF Inv, AskedInv
<1>4. PlacedInv'
  <2>1. SUFFICES ASSUME Regular(c), NEW x \in inbox' \cup pipe \cup stuck
                 PROVE  Placed(c, x[2].dst) /\ Placed(c, x[2].src)
    BY <1>1 DEF PlacedInv
  <2>2. CASE x \in inbox \cup pipe \cup stuck
    BY <2>1, <2>2 DEF Inv, PlacedInv
  <2>3. CASE x \notin inbox \cup pipe \cup stuck
    <3>1. x \in {<<pid, Request(c, "kPut", 0, p)>> :
                   p \in {q \in Params : <<"worker", 0, 0>> \in ThreadsOf(c, pid)}}
      BY <2>1, <2>3 DEF Start
    <3>2. PICK p \in Params : <<"worker", 0, 0>> \in ThreadsOf(c, pid)
                              /\ x = <<pid, Request(c, "kPut", 0, p)>>
      BY <3>1
    <3>3. x[2] = Request(c, "kPut", 0, p)
      BY <3>2
    <3> QED  BY <1>1, <2>1, <3>2, <3>3, RequestPlaced
  <2> QED  BY <2>2, <2>3
<1> QED  BY <1>1, <1>2, <1>3, <1>4 DEF Inv

\* A step of worker 0 puts the requests of a group the process leads under way.
LEMMA BackwardInv ==
  ASSUME Inv, NEW pid \in 0 .. NProcs(c) - 1, NEW g, Backward(pid, g)
  PROVE  Inv'
<1>1. /\ c' = c /\ c \in Shape /\ started' = started
      /\ pipe' = pipe /\ stuck' = stuck
      /\ died \subseteq died'
      /\ asked' = asked \cup {<<pid, g>>}
      /\ pid \in started \ died
      /\ <<"worker", g, 0>> \in ThreadsOf(c, pid)
  BY DEF Backward, Alive, Inv
<1>2. LaunchInv'
  BY <1>1 DEF Inv, LaunchInv
<1>3. AskedInv'
  <2>1. HasWorker(c, pid) /\ Leads(c, pid, g)
    BY <1>1, WorkerZero
  <2>2. Spread(c) \/ Divides(c.nworkers_per_group, c.nworkers_per_procs)
    BY <1>1, <2>1 DEF Inv, LaunchInv
  <2>3. ASSUME NEW x \in asked'
        PROVE  x = <<x[1], x[2]>> /\ x[1] \in 0 .. NProcs(c) - 1 /\ Leads(c, x[1], x[2])
    <3>1. CASE x \in asked
      BY <3>1 DEF Inv, AskedInv
    <3>2. CASE x = <<pid, g>>
      BY <2>1, <3>2
    <3> QED  BY <1>1, <2>3, <3>1, <3>2
  <2> QED  BY <1>1, <2>2, <2>3 DEF AskedInv
<1>4. PlacedInv'
  <2>1. SUFFICES ASSUME Regular(c), NEW x \in inbox' \cup pipe \cup stuck
                 PROVE  Placed(c, x[2].dst) /\ Placed(c, x[2].src)
    BY <1>1 DEF PlacedInv
  <2>2. CASE x \in inbox \cup pipe \cup stuck
    BY <2>1, <2>2 DEF Inv, PlacedInv
  <2>3. CASE x \notin inbox \cup pipe \cup stuck
    <3>1. PICK p \in Params : x = <<pid, Request(c, "kUpdate", g, p)>>
      BY <2>1, <2>3 DEF Backward
    <3>2. x[2] = Request(c, "kUpdate", g, p)
      BY <3>1
    <3> QED  BY <1>1, <2>1, <3>2, RequestPlaced
  <2> QED  BY <2>2, <2>3
<1> QED  BY <1>1, <1>2, <1>3, <1>4 DEF Inv

\* A step that puts nothing under way but what was, or answers to it.
LEMMA PassedOnInv ==
  ASSUME Inv, UNCHANGED <<c, started, died, asked>>,
         NEW y \in inbox \cup pipe \cup stuck,
         \A x \in inbox' \cup pipe' \cup stuck' :
           x \in inbox \cup pipe \cup stuck \/ x[2] = Answer(y[2])
  PROVE  Inv'
<1>1. LaunchInv' /\ AskedInv' /\ c' \in Shape
  BY DEF Inv, LaunchInv, AskedInv
<1>2. PlacedInv'
  <2>1. SUFFICES ASSUME Regular(c), NEW x \in inbox' \cup pipe' \cup stuck'
                 PROVE  Placed(c, x[2].dst) /\ Placed(c, x[2].src)
    BY DEF PlacedInv
  <2>2. CASE x \in inbox \cup pipe \cup stuck
    BY <2>1, <2>2 DEF Inv, PlacedInv
  <2>3. CASE x[2] = Answer(y[2])
    <3>1. Answer(y[2]).dst = y[2].src /\ Answer(y[2]).src = y[2].dst
      BY DEF Answer
    <3>2. Placed(c, y[2].dst) /\ Placed(c, y[2].src)
      BY <2>1 DEF Inv, PlacedInv
    <3> QED  BY <2>3, <3>1, <3>2
  <2> QED  BY <2>1, <2>2, <2>3
<1> QED  BY <1>1, <1>2 DEF Inv

\* Inv is inductive.
LEMMA StepInv == Inv /\ [Next]_vars => Inv'
<1> SUFFICES ASSUME Inv, [Next]_vars  PROVE Inv'
  OBVIOUS
<1>1. ASSUME UNCHANGED vars  PROVE Inv'
  BY <1>1 DEF vars, Inv, LaunchInv, AskedInv, PlacedInv
<1>2. ASSUME NEW pid \in 0 .. NProcs(c) - 1, NEW type \in Types, Route(pid, type)
      PROVE  Inv'
  <2>1. PICK x \in inbox : \/ pipe' = pipe \cup {x} /\ UNCHANGED stuck
                           \/ stuck' = stuck \cup {x} /\ UNCHANGED pipe
    BY <1>2 DEF Route
  <2>2. inbox' \subseteq inbox /\ UNCHANGED <<c, started, died, asked>>
    BY <1>2 DEF Route
  <2> QED  BY <2>1, <2>2, PassedOnInv
<1>3. ASSUME NEW pid \in 0 .. NProcs(c) - 1, HandlePut(pid)  PROVE Inv'
  <2>1. PICK x \in pipe : pipe' = pipe \ {x}
    BY <1>3 DEF HandlePut, Receives
  <2>2. UNCHANGED <<inbox, stuck, c, started, died, asked>>
    BY <1>3 DEF HandlePut
  <2> QED  BY <2>1, <2>2, PassedOnInv
<1>4. ASSUME NEW pid \in 0 .. NProcs(c) - 1, HandleUpdate(pid)  PROVE Inv'
  <2>1. PICK x \in pipe :
          /\ pipe' = pipe \ {x}
          /\ inbox' = inbox \cup
               {IF <<pid, x[2].target>> \in shard THEN <<pid, Answer(x[2])>> ELSE x}
    BY <1>4 DEF HandleUpdate, Receives
  <2>2. UNCHANGED <<stuck, c, started, died, asked>>
    BY <1>4 DEF HandleUpdate
  <2>3. ASSUME NEW y \in inbox' \cup pipe' \cup stuck'
        PROVE  y \in inbox \cup pipe \cup stuck \/ y[2] = Answer(x[2])
    <3>1. CASE y = <<pid, Answer(x[2])>>
      BY <3>1
    <3> QED  BY <2>1, <2>2, <2>3, <3>1
  <2> QED  BY <2>2, <2>3, PassedOnInv
<1>5. ASSUME NEW pid \in 0 .. NProcs(c) - 1, Collect(pid)  PROVE Inv'
  <2>1. PICK x \in pipe : pipe' = pipe \ {x}
    BY <1>5 DEF Collect, Receives
  <2>2. UNCHANGED <<inbox, stuck, c, started, died, asked>>
    BY <1>5 DEF Collect
  <2> QED  BY <2>1, <2>2, PassedOnInv
<1> QED  BY <1>1, <1>2, <1>3, <1>4, <1>5, StartInv, BackwardInv DEF Next

\* In every regular cluster every message under way is routed to a process
\* that launches the thread it is for.
THEOREM ClusterRouted == Spec => []RoutedWhereLaunched
<1>1. Inv => RoutedWhereLaunched
  BY DEF Inv, PlacedInv, Placed, RoutedWhereLaunched
<1> QED  BY <1>1, InitInv, StepInv, PTL DEF Spec

\* In every cluster, regular or not, no two processes train one group's net.
THEOREM TrainedOnce == Spec => []OneTrainer
<1>1. Inv => OneTrainer
  <2>1. SUFFICES ASSUME Inv, NEW x \in asked, NEW y \in asked, x[2] = y[2]
                 PROVE  x = y
    BY DEF OneTrainer
  <2>2. /\ x = <<x[1], x[2]>> /\ x[1] \in Nat /\ Leads(c, x[1], x[2])
        /\ y = <<y[1], y[2]>> /\ y[1] \in Nat /\ Leads(c, y[1], y[2])
        /\ Spread(c) \/ Divides(c.nworkers_per_group, c.nworkers_per_procs)
        /\ c \in Shape
    BY <2>1 DEF Inv, AskedInv
  <2>3. x[1] = y[1]
    BY <2>1, <2>2, LeaderUnique
  <2> QED  BY <2>1, <2>2, <2>3
<1> QED  BY <1>1, InitInv, StepInv, PTL DEF Spec
=============================================================================
