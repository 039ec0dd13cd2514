---------------------------- MODULE SessionFiles ----------------------------
(***************************************************************************)
(* The session of a browser while its user logs in and out: gluon/globals  *)
(* (Session.connect, renew, clear and _try_store_in_file), as wsgibase and *)
(* Auth call them.  A session is a file; the cookie holds its name, and    *)
(* every answer sets it.                                                   *)
(*                                                                         *)
(* Left out: sessions in cookies and in the database, separate,            *)
(* check_client, the flags of the cookie, and forget.                      *)
(***************************************************************************)
EXTENDS LockedFiles

CONSTANT Sids   \* bound on the session ids that are made up

\* A call makes up one id when it finds no session, and one when it renews it.
ASSUME SidAssumption == Sids \in Nat /\ 1..Sids \subseteq Name /\ 2 * MaxOps <= Sids

NoSid == 0

\* A request: its session's id and open file, whether the session is new and has changed.
Requesting(op) ==
    [pc |-> "connect", op |-> op, sid |-> note.cookie, inode |-> 0, auth |-> FALSE,
     new |-> FALSE, changed |-> FALSE]

Others(p) == {q \in Proc \ {p} : ~Is(q, "idle")}
Busy(p, what) == \E q \in Others(p) : proc[q].op \in what
Changes == {"login", "logout"}

Send(p) ==
    /\ note.users = "browser"
    /\ \E op \in {"visit"} \cup Changes :
          /\ Call(p, Requesting(op))
          /\ note' = [note EXCEPT
                !.overlap = @ \/ Busy(p, IF op = "visit" THEN Changes ELSE {"visit"} \cup Changes),
                !.crossed = @ \/ Busy(p, {"login"}) \/ (op = "login" /\ (note.wanted \/ Others(p) # {}))]

Found(sid) == sid # NoSid /\ Exists(sid)

\* connect: the file that the cookie names is opened; without one, an id is made up.
OpenSession(p) ==
    LET sid == proc[p].sid
    IN  /\ Is(p, "connect")
        /\ \/ /\ Found(sid)
              /\ Step(p, [pc |-> "session", inode |-> dir[sid]])
              /\ UNCHANGED note
           \/ /\ ~Found(sid)
              /\ Step(p, [pc |-> "controller", sid |-> note.sids + 1, new |-> TRUE])
              /\ note' = [note EXCEPT !.sids = @ + 1]
        /\ UNCHANGED <<diskVars, ops>>

LoadSession(p) ==
    LET i == proc[p].inode
    IN  /\ Is(p, "session")
        /\ Unlocked(i)
        /\ flock' = [flock EXCEPT ![i] = p]
        /\ Step(p, [pc |-> "controller", auth |-> disk[i].auth])
        /\ UNCHANGED <<dir, disk, ops, note>>

\* _close: the lock goes with the file.
Closed(p) == [i \in DOMAIN flock |-> IF flock[i] = p THEN NoProc ELSE flock[i]]
CloseSession(p) == flock' = Closed(p) /\ UNCHANGED <<dir, disk>>

\* The controller, and perhaps it changes the session.
Visit(p) ==
    /\ Is(p, "controller")
    /\ proc[p].op = "visit"
    /\ \E b \in BOOLEAN : Step(p, [pc |-> "save", changed |-> b])
    /\ UNCHANGED <<diskVars, ops, note>>

\* Slip: the renewed session is saved to the file that was open.
SlipLogIn(p) ==
    /\ Is(p, "controller")
    /\ proc[p].op = "login"
    /\ Step(p, [pc |-> "save", auth |-> TRUE, changed |-> TRUE, sid |-> note.sids + 1])
    /\ note' = [note EXCEPT !.sids = @ + 1]
    /\ UNCHANGED <<diskVars, ops>>

\* login_user: the session is renewed with what is in it; the old file stays.
LogIn(p) ==
    /\ Is(p, "controller")
    /\ proc[p].op = "login"
    /\ CloseSession(p)
    /\ Step(p, [pc |-> "save", auth |-> TRUE, new |-> TRUE, changed |-> TRUE, sid |-> note.sids + 1])
    /\ note' = [note EXCEPT !.sids = @ + 1]
    /\ UNCHANGED ops

\* logout, or Auth finds that the login expired: renew clears the session, for which it first
\* closes its file ...
ClearSession(p) ==
    /\ Is(p, "controller")
    /\ proc[p].op = "logout" \/ (proc[p].op = "visit" /\ proc[p].auth)
    /\ CloseSession(p)
    /\ Step(p, [pc |-> "unlink"])
    /\ note' = [note EXCEPT !.overlap = @ \/ Others(p) # {},
                            !.crossed = @ \/ Busy(p, {"login"})]
    /\ UNCHANGED ops

\* Slip: the file of the session stays.
SlipUnlinkSession(p) ==
    /\ Is(p, "unlink")
    /\ Step(p, [pc |-> "save", auth |-> FALSE, new |-> TRUE, changed |-> TRUE, sid |-> note.sids + 1])
    /\ note' = [note EXCEPT !.sids = @ + 1, !.wanted = FALSE]
    /\ UNCHANGED <<diskVars, ops>>

\* ... and then removes it, if there was one; logout leaves a message in the new session.
UnlinkSession(p) ==
    /\ Is(p, "unlink")
    /\ Unlink(proc[p].sid)
    /\ \E b \in BOOLEAN :
          /\ proc[p].op = "logout" => b
          /\ Step(p, [pc |-> "save", auth |-> FALSE, new |-> TRUE, changed |-> b, sid |-> note.sids + 1])
    /\ note' = [note EXCEPT !.sids = @ + 1, !.cleared = @ \cup {proc[p].sid}, !.wanted = FALSE]
    /\ UNCHANGED ops

\* Slip: the file is opened again by its name.
SlipStoreSession(p) ==
    LET sid == proc[p].sid
    IN  /\ Is(p, "save")
        /\ dir' = IF proc[p].changed THEN [dir EXCEPT ![sid] = Len(disk) + 1] ELSE dir
        /\ disk' = Append(disk, [auth |-> proc[p].auth])
        /\ flock' = Append(Closed(p), NoProc)
        /\ Step(p, [pc |-> "answer"])
        /\ UNCHANGED <<ops, note>>

\* _try_store_in_file: a session that did not change is not written, a new one gets a file,
\* another is written to the file that is open, whatever its name leads to by now.
StoreSession(p) ==
    LET session == [auth |-> proc[p].auth]
    IN  /\ Is(p, "save")
        /\ \/ ~proc[p].changed /\ CloseSession(p)
           \/ /\ proc[p].changed /\ proc[p].new
              /\ dir' = [dir EXCEPT ![proc[p].sid] = Len(disk) + 1]
              /\ disk' = Append(disk, session)
              /\ flock' = Append(Closed(p), NoProc)
           \/ /\ proc[p].changed /\ ~proc[p].new
              /\ disk' = [disk EXCEPT ![proc[p].inode] = session]
              /\ flock' = Closed(p)
              /\ UNCHANGED dir
        /\ Step(p, [pc |-> "answer"])
        /\ UNCHANGED <<ops, note>>

\* The controller raises: a ticket, no cookie, and wsgibase closes the file.
RaiseInRequest(p) ==
    /\ Is(p, "controller") \/ Is(p, "save")
    /\ CloseSession(p)
    /\ Return(p)
    /\ UNCHANGED <<ops, note>>

\* The answer reaches the browser, with the id of the session in the cookie, ...
Answer(p) ==
    /\ Is(p, "answer")
    /\ note' = [note EXCEPT !.cookie = proc[p].sid, !.wanted = @ \/ proc[p].op = "login"]
    /\ Return(p)
    /\ UNCHANGED <<diskVars, ops>>

\* ... or is lost.
LoseAnswer(p) ==
    /\ Is(p, "answer")
    /\ Return(p)
    /\ UNCHANGED <<diskVars, ops, note>>

SessionStep(p) ==
    \/ OpenSession(p)
    \/ LoadSession(p)
    \/ Visit(p)
    \/ LogIn(p)
    \/ ClearSession(p)
    \/ UnlinkSession(p)
    \/ StoreSession(p)
    \/ Answer(p)

-----------------------------------------------------------------------------
(* Properties. *)

\* What the next request of the browser will find.
IsLoggedIn == Found(note.cookie) /\ Holds(note.cookie).auth

\* A session that was cleared never has a file again, although requests that opened it before
\* still wait for its lock, run as the user who was logged in, and store it.
ClearedForGood == \A sid \in note.cleared : ~Exists(sid)

\* The browser is logged in exactly when its last login came through and nothing ended it
\* since, over any number of renewed ids, as long as no request was under way with another
\* that changed the session's id: a late answer sets the old id again.
LoginLasts ==
    ~note.overlap /\ (\A p \in Proc : Is(p, "idle")) => (IsLoggedIn <=> note.wanted)

\* Late answers may undo a login but no logout: once a session was cleared, the browser stays
\* logged out until it logs in again, even if other requests were under way with the logout;
\* only not if they were with the login before, or if that was made by a user logged in.
LogoutLasts == ~note.crossed /\ ~note.wanted => ~IsLoggedIn

=============================================================================
