--------------------------- MODULE MCFsResources ---------------------------
EXTENDS FsResources

Blank ==
  [limit |-> none, swap |-> none, reservation |-> none, oom |-> FALSE,
   swappiness |-> none, shares |-> none, quota |-> none, period |-> none,
   pids |-> none, huge |-> none, devices |-> none, cpus |-> none, mems |-> none,
   rt_runtime |-> none, rt_period |-> none, kmem |-> none, tcp |-> none, attr |-> none,
   io |-> none, class |-> none, prios |-> none, high |-> none, min |-> none,
   state |-> none]

(* Limits of memory and of memory with swap in combination, the other
   values of memory one at a time and after a limit, pairs of quota and period,
   and one request for everything. *)
MCMemory ==
  {[Blank EXCEPT !.limit = l, !.swap = s] : l, s \in {none, -1, 1, 2, 3}}
    \union {[Blank EXCEPT !.limit = 0, !.swap = s] : s \in {0, 2}}
MCReservation ==
  {[Blank EXCEPT !.limit = l, !.swap = 3, !.reservation = r] : l \in {none, -1, 2}, r \in {-1, 2}}
    \union {[Blank EXCEPT !.limit = 3, !.oom = TRUE, !.swappiness = p] : p \in {10, 101}}
MCCpu ==
  {[Blank EXCEPT !.quota = q, !.period = p] : q \in {none, -1, 0, 5, 20}, p \in {none, 10, 20}}
    \union {[Blank EXCEPT !.shares = s] : s \in {0, 1, 1024, 300000}}
MCOther ==
  {[Blank EXCEPT !.pids = n] : n \in {-1, 0, 7}}
    \union {[Blank EXCEPT !.huge = n] : n \in {1, 2}}
    \union {[Blank EXCEPT !.devices = << [rule |-> "deny", devs |-> Devices],
                                         [rule |-> "allow", devs |-> {d}] >>] : d \in Devices}
    \union {[Blank EXCEPT !.devices = << >>],
            [Blank EXCEPT !.devices = << [rule |-> "deny", devs |-> {1}],
                                         [rule |-> "typeless", devs |-> {}] >>]}
(* A disk that exists, 1, and one that does not; the values are in range or not;
   a disk named twice. *)
NoRates == [k \in Rates |-> << >>]
MCIo ==
  {[Blank EXCEPT !.io = [weight |-> w, leaf |-> l, devices |-> << >>, rates |-> NoRates]] :
      w \in {none, 5, 200}, l \in {none, 300}}
    \union {[Blank EXCEPT !.io =
               [weight |-> none, leaf |-> none,
                devices |-> << [dev |-> 1, weight |-> w, leaf |-> none] >>,
                rates |-> [NoRates EXCEPT !["wbps"] = << [dev |-> 1, rate |-> 7] >>,
                                          !["riops"] = << [dev |-> d, rate |-> n] >>]]] :
               w \in {none, 400}, d \in {1, 2}, n \in {0, 8}}
    \union {[Blank EXCEPT !.io =
               [weight |-> none, leaf |-> 300,
                devices |-> << [dev |-> 1, weight |-> 400, leaf |-> 20],
                               [dev |-> 1, weight |-> w, leaf |-> none] >>,
                rates |-> [NoRates EXCEPT !["wbps"] = << [dev |-> 1, rate |-> 7],
                                                         [dev |-> 1, rate |-> 9] >>]]] :
               w \in {none, 500}}
MCNetwork ==
  {[Blank EXCEPT !.class = c, !.prios = p] :
     c \in {none, 1}, p \in {none, << [name |-> "lo", prio |-> 3], [name |-> "eth", prio |-> 4] >>}}
    \union {[Blank EXCEPT !.class = 2, !.prios = << [name |-> "lo", prio |-> 5] >>]}
MCRealtime ==
  {[Blank EXCEPT !.cpus = c, !.mems = n] : c \in {1, 2}, n \in {none, 1, 2}}
    \union {[Blank EXCEPT !.rt_runtime = q, !.rt_period = p] : q \in {none, -2, 5, 15}, p \in {none, 10, 20}}
MCMem ==
  {[Blank EXCEPT !.high = h, !.reservation = 1, !.limit = l, !.min = m] :
     h \in {none, 2}, l \in {none, 2, 3}, m \in {none, 1}}
    \union {[Blank EXCEPT !.kmem = 2, !.tcp = 1, !.attr = 1]}
MCFreezer ==
  {[Blank EXCEPT !.state = s] : s \in {"thawed", "frozen", "freezing"}}
    \union {[Blank EXCEPT !.pids = 7, !.quota = -5]}
MCAll == {[Blank EXCEPT !.limit = 2, !.swap = 3, !.swappiness = 20, !.quota = 5,
             !.period = 20, !.pids = 7, !.huge = 2, !.shares = 1024]}
MCFamilies == {MCMemory, MCReservation, MCCpu, MCOther, MCIo, MCNetwork, MCRealtime, MCMem, MCFreezer, MCAll}
MCLimits == {{[Blank EXCEPT !.limit = l, !.swap = s] : l \in {-1, 2}, s \in {none, 3}}}
MCDevices == {1, 2}
MCParentDevices == {1}
MCOps == {"set", "apply", "set_mem", "freeze"}
MCDisks == {1}
MCInterfaces == {"lo"}
MCSet == {"set"}
MCBoth == {FALSE, TRUE}
MCUnified == {TRUE}
=============================================================================
