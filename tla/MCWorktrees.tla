------------------------------ MODULE MCWorktrees ------------------------------
(* Small instances of Worktrees for TLC: pairs of calls from a menu, on spines and disks as earlier
   calls leave them, each with one thing that may happen meanwhile. *)
EXTENDS Worktrees, Sequences

Call(kind, sid) == [kind |-> kind, sid |-> sid]

\* The first of a pair may exit: the calls with the longest transactions come first.
Menu ==
    <<Call("abandoned", "a"), Call("abandoned", "b"), Call("merged", "a"), Call("claim", "a"),
      Call("forceClaim", "b"), Call("sweep", Nobody), Call("recover", "a"), Call("recover", "b"),
      Call("release", "a"), Call("kept", "a"), Call("force", "b")>>

Idle == Call("none", Nobody)
Sweep == Call("sweep", Nobody)

Pairs == {[p |-> Menu[t[1]], q |-> Menu[t[2]], r |-> Idle] :
             t \in {u \in (DOMAIN Menu) \X (DOMAIN Menu) : u[1] <= u[2]}}

\* A detach that may be cut short, another call, and a sweep that meets what they leave.
CutShort == {[p |-> Call("abandoned", "a"), q |-> c, r |-> Sweep] :
                c \in {Call("claim", "a"), Call("merged", "a"), Call("release", "a"), Call("kept", "a"),
                       Call("recover", "b")}}

\* A session f of another replica may have attached 1, listed before the ones made here, or 5.
NoWt == [state |-> "none", session |-> Nobody, origin |-> "local", token |-> FALSE]
Wt(s, origin, token) == [state |-> "live", session |-> s, origin |-> origin, token |-> token]

Only(a, w) == [b \in Aid |-> IF b = a THEN w ELSE NoWt]
Wants(a, i) == [b \in Aid |-> IF b = a THEN i ELSE "none"]

Statuses(live, away) ==
    [s \in Sid |-> IF s \in live THEN "active" ELSE IF s \in away THEN "absent" ELSE "closed"]

\* The first claim is left to what a pull may bring.
Ranks(owners) ==
    [l \in Lane |-> [s \in Sid |->
        IF \E i \in DOMAIN owners : owners[i] = s
        THEN 1 + CHOOSE i \in DOMAIN owners : owners[i] = s ELSE 0]]

Place(live, owners, m, bad, w, i, d) ==
    [status |-> Statuses(live, {s \in {"f"} : \A a \in Aid : w[a].session # s}),
     mode |-> m, corrupt |-> bad, rank |-> Ranks(owners),
     claim |-> [l \in Lane |-> IF owners = <<>> THEN Nobody ELSE owners[Len(owners)]],
     wt |-> w, intent |-> i, disk |-> d]

Both == {"a", "b"}
Mine == Only(2, Wt("a", "local", TRUE))
Unasked == Wants(2, "none")

Places ==
    [free      |-> Place(Both, <<>>, "default", FALSE, Only(2, NoWt), Unasked, NoTree),
     held      |-> Place(Both, <<"a">>, "default", FALSE, Mine, Unasked, 2),
     pending   |-> Place(Both, <<"a">>, "default", FALSE, Mine, Wants(2, "abandoned"), 2),
     stranded  |-> Place(Both, <<"a">>, "default", FALSE, Mine, Wants(2, "merged"), NoTree),
     vanished  |-> Place(Both, <<"a">>, "default", FALSE, Mine, Unasked, NoTree),
     replaced  |-> Place(Both, <<"a">>, "default", FALSE, Mine, Wants(2, "merged"), Alien),
     ownerless |-> Place({"b"}, <<>>, "default", FALSE, Mine, Wants(2, "abandoned"), 2),
     overtaken |-> Place(Both, <<"b", "a">>, "sync", FALSE, Mine, Unasked, 2),
     legacy    |-> Place(Both, <<"a">>, "default", FALSE, Only(2, Wt("a", "local", FALSE)), Unasked, Alien),
     unclear   |-> Place(Both, <<"a">>, "sync", FALSE, Only(2, Wt("a", "unverifiable", TRUE)), Unasked, 2),
     invalid   |-> Place(Both, <<"a">>, "sync", FALSE, Mine, Wants(2, "invalid"), 2),
     foreign   |-> Place(Both, <<"a">>, "sync", FALSE, Only(1, Wt("f", "foreign", TRUE)), Unasked, NoTree),
     torn      |-> Place(Both, <<"a">>, "default", TRUE, Mine, Wants(2, "abandoned"), 2)]

Scene(ops, v, events, trigger) ==
    [ops |-> ops, may |-> events, allowed |-> trigger, status |-> v.status, mode |-> v.mode,
     corrupt |-> v.corrupt, rank |-> v.rank, claim |-> v.claim, wt |-> v.wt, intent |-> v.intent,
     disk |-> v.disk]

AllPairs ==
    {Scene(ops, Places[n], {e}, TRUE) :
        ops \in Pairs, n \in DOMAIN Places, e \in {"close", "tamper"}}
    \cup {Scene(ops, Places[n], {"outage"}, TRUE) :
            ops \in Pairs, n \in {i \in DOMAIN Places : Places[i].disk # NoTree}}
    \cup {Scene(ops, Places[n], {"import"}, TRUE) :
            ops \in Pairs, n \in {i \in DOMAIN Places : Places[i].mode = "sync"}}
    \cup {Scene(ops, Places.held, {}, TRUE) : ops \in CutShort}
    \cup {Scene([p |-> Sweep, q |-> Sweep, r |-> Idle], Places.pending, {}, FALSE)}

\* A detach that may be cut short, a new claim of the same session, and a sweep.
ClaimAfterCrash ==
    {Scene([p |-> Call("abandoned", "a"), q |-> Call("claim", "a"), r |-> Sweep],
           Places.held, {}, TRUE)}
=============================================================================
