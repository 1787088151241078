------------------------------ MODULE MCSessions ------------------------------
(* Small instances of Sessions for TLC: every pair of calls from a menu, on four spines. *)
EXTENDS Sessions, Sequences

Call(kind, sid, lane, claude) == [kind |-> kind, sid |-> sid, lane |-> lane, claude |-> claude]

\* The first of a pair may exit: the calls with the longest transactions come first.
Menu ==
    <<Call("start", "a", "l", "c1"),      Call("start", Nobody, "l", "c2"),
      Call("end", Nobody, "l", "c1"),     Call("end", Nobody, "l", "c2"),
      Call("edit", Nobody, "l", "c1"),    Call("edit", Nobody, "l", "c2"),
      Call("edit", "d", "l", "c2"),
      Call("sweep", Nobody, "l", "c1"),
      Call("close", "a", "l", "c1"),      Call("close", "b", "l", "c1"),
      Call("register", "a", "l", "c1"),   Call("register", Nobody, "l", "c1"),
      Call("force", "b", "l", "c1"),      Call("force", "d", "l", "c1"),
      Call("claim", "b", "l", "c1"),      Call("claim", "d", "l", "c1"),
      Call("release", "a", "l", "c1"),    Call("release", "b", "l", "c1"),
      Call("heartbeat", "a", "l", "c1"),
      Call("explicit", "a", "l", "c1"),   Call("explicit", "e", "l", "c1"),
      Call("init", Nobody, "l", "c1")>>

Fresh == [p |-> "np", q |-> "nq"]

Named(c, p) == [kind |-> c.kind, sid |-> c.sid, lane |-> c.lane, claude |-> c.claude,
                fresh |-> Fresh[p]]

\* Without exits the processes differ in their fresh ids alone, so a pair is listed in one order.
Pairs == {[p |-> Named(Menu[t[1]], "p"), q |-> Named(Menu[t[2]], "q")] :
             t \in {u \in (DOMAIN Menu) \X (DOMAIN Menu) : u[1] <= u[2]}}

Statuses(live, closed) ==
    [s \in Sid |-> IF s \in live THEN "active" ELSE IF s \in closed THEN "closed" ELSE "absent"]

Ages == [s \in Sid |-> IF s = "a" THEN "expired" ELSE IF s = "b" THEN "old" ELSE "fresh"]

Ranks(owners) ==
    [l \in Lane |-> [s \in Sid |->
        IF l = "l" /\ \E i \in DOMAIN owners : owners[i] = s
        THEN CHOOSE i \in DOMAIN owners : owners[i] = s ELSE 0]]

Spine(live, closed, owners, m, bad) ==
    [status |-> Statuses(live, closed), beat |-> Ages, mode |-> m, corrupt |-> bad,
     claim |-> [l \in Lane |-> IF l = "l" /\ owners # <<>> THEN owners[Len(owners)] ELSE Nobody],
     rank |-> Ranks(owners),
     binding |-> [c1 |-> [sid |-> "a", new |-> FALSE], c2 |-> [sid |-> Nobody, new |-> FALSE]],
     pointer |-> "a"]

\* A held lane; an orphaned one; one whose dead owner superseded a live one; a bad line.
Spines == {Spine({"a", "b", "d"}, {}, <<"a">>, "default", FALSE),
           Spine({"b", "d"}, {"a"}, <<"a">>, "default", FALSE),
           Spine({"a", "d"}, {"b"}, <<"a", "b">>, "sync", FALSE),
           Spine({"a", "b", "d"}, {}, <<"a">>, "default", TRUE)}

Scene(ops, v) == [ops |-> ops, status |-> v.status, beat |-> v.beat, mode |-> v.mode,
                  corrupt |-> v.corrupt, claim |-> v.claim, rank |-> v.rank,
                  binding |-> v.binding, pointer |-> v.pointer]

AllPairs == {Scene(ops, v) : ops \in Pairs, v \in Spines}

OwnLane == [s \in Sid |-> IF s = "np" THEN "np" ELSE IF s = "nq" THEN "nq" ELSE "auto"]
=============================================================================
