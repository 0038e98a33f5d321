------------------------------ MODULE FtpProofs ------------------------------
(***************************************************************************)
(* Proofs for the FTP server: what a session holds and where it is, for    *)
(* any number of sessions and connections and paths of any length.         *)
(***************************************************************************)
EXTENDS Ftp, SequenceTheorems, FiniteSetTheorems, TLAPS

Names == {"dir", "entry"}

SessionSet ==
    [pc : {"free", "read", "list", "retr", "stor", "end"},
     user : {"NONE", "NO_PASS", "LOGGED_IN"},
     data_conn_mode : {"NOT_SET", "PASSIVE", "ACTIVE"},
     listdataconn : {"NULL", "unlistening", "listening"},
     dataconn : BOOLEAN, file : BOOLEAN,
     path : Seq(Names), cwd : Seq(Names), moved : BOOLEAN,
     pasvFailed : BOOLEAN, silent : BOOLEAN]

\* A listener that does not listen is left by a PASV that failed.
Listens(r) ==
    /\ r.listdataconn = "unlistening" => r.pasvFailed
    /\ r.data_conn_mode = "PASSIVE" => r.listdataconn = "listening" \/ r.pasvFailed

\* During a transfer the path is the one of the file, an entry of the working
\* directory unless the client has left it.
PathKept(r) ==
    /\ r.pc \in {"read", "list"} => r.path = r.cwd \/ r.moved
    /\ r.pc \in {"retr", "stor"} => path_up_a_level(r.path) = r.cwd \/ r.moved

\* Data connections and files are held during the commands that need them.
Holds(r) ==
    /\ r.pc = "free" => r = NoSession
    /\ r.dataconn <=> r.pc \in {"list", "retr", "stor"}
    /\ r.file <=> r.pc \in {"retr", "stor"}

Good(r) == r \in SessionSet /\ Listens(r) /\ PathKept(r) /\ Holds(r)

SessionInv == ses \in [Slots -> SessionSet] /\ \A s \in Slots : Good(ses[s])

\* One step changes one session.
LEMMA OneSession ==
    ASSUME SessionInv, NEW s \in Slots, NEW r, Go(s, r), Good(r)
    PROVE  SessionInv'
  BY DEF SessionInv, Good, Go

\* A session at rest: fields that the invariant does not relate may change.
LEMMA NewSession == Good(NoSession) /\ Good([NoSession EXCEPT !.pc = "read"])
<1>1. <<>> \in Seq(Names)
  OBVIOUS
<1>2. NoSession \in SessionSet /\ [NoSession EXCEPT !.pc = "read"] \in SessionSet
  BY <1>1 DEF SessionSet, NoSession
<1>3. ASSUME NEW r \in {NoSession, [NoSession EXCEPT !.pc = "read"]}
      PROVE  Listens(r) /\ PathKept(r) /\ Holds(r)
  BY <1>3 DEF Listens, PathKept, Holds, NoSession
<1> QED
  BY <1>2, <1>3 DEF Good

\* What is built from a path is a path, and taking an entry away gives the
\* directory back.
LEMMA PathFacts ==
    ASSUME NEW path \in Seq(Names), NEW par \in Parameters
    PROVE  /\ path_up_a_level(path) \in Seq(Names)
           /\ path_build(path, par) \in Seq(Names)
           /\ par = "entry" => path_up_a_level(path_build(path, par)) = path
<1>1. path_up_a_level(path) \in Seq(Names)
  <2>1. CASE path = <<>>
    BY <2>1 DEF path_up_a_level
  <2>2. CASE path # <<>>
    <3>1. Len(path) - 1 \in Nat /\ Len(path) - 1 <= Len(path)
      BY <2>2, EmptySeq
    <3>2. SubSeq(path, 1, Len(path) - 1) \in Seq(Names)
      BY <3>1, SubSeqProperties
    <3> QED
      BY <2>2, <3>2 DEF path_up_a_level
  <2> QED
    BY <2>1, <2>2
<1>2. path_build(path, par) \in Seq(Names)
  <2>1. "dir" \in Names /\ "entry" \in Names
    BY DEF Names
  <2>2. <<>> \in Seq(Names) /\ Append(path, "entry") \in Seq(Names)
    BY <2>1
  <2>3. <<"dir", "entry">> \in Seq(Names)
    BY <2>1
  <2>4. path \o <<"dir", "entry">> \in Seq(Names)
    BY <2>3, ConcatProperties
  <2> QED
    BY <1>1, <2>2, <2>3, <2>4 DEF path_build, Parameters
<1>3. ASSUME par = "entry" PROVE path_up_a_level(path_build(path, par)) = path
  <2>1. path_build(path, par) = Append(path, "entry")
    BY <1>3 DEF path_build
  <2>2. /\ Append(path, "entry") # <<>> /\ Len(Append(path, "entry")) - 1 = Len(path)
        /\ SubSeq(Append(path, "entry"), 1, Len(path)) = path
    OBVIOUS
  <2> QED
    BY <2>1, <2>2 DEF path_up_a_level
<1> QED
  BY <1>1, <1>2, <1>3

\* What a session that ends keeps.
LEMMA EndingFields ==
    ASSUME NEW r \in SessionSet
    PROVE  LET e == Ending(r)
           IN  /\ e \in SessionSet /\ e.pc = "end" /\ e.listdataconn = r.listdataconn
               /\ e.data_conn_mode = "NOT_SET" /\ e.pasvFailed = r.pasvFailed
               /\ e.dataconn = r.dataconn /\ e.file = r.file
<1>1. <<>> \in Seq(Names)
  OBVIOUS
<1> QED
  BY <1>1 DEF Ending, NoSession, SessionSet

\* The login, the silence of a client, and the end of a session: nothing that
\* the invariant relates changes, or nothing is claimed any more.
LEMMA LifeInv ==
    ASSUME SessionInv, NEW s \in Slots,
           \/ FtpAccept(s) \/ ClientFallsSilent(s) \/ LeaveService(s) \/ EndOfTask(s)
           \/ USER(s) \/ PASS(s)
    PROVE  SessionInv'
<1> DEFINE r == ses[s]
<1>0. Good(r) /\ r \in SessionSet
  BY DEF SessionInv, Good
<1>1. CASE FtpAccept(s) \/ EndOfTask(s)
  BY <1>1, NewSession, OneSession DEF FtpAccept, EndOfTask
<1>2. CASE ClientFallsSilent(s) \/ USER(s) \/ PASS(s)
  <2>1. PICK e \in {[r EXCEPT !.silent = TRUE], [r EXCEPT !.user = "NO_PASS"],
                    [r EXCEPT !.user = "LOGGED_IN"]} : Go(s, e) /\ r.pc # "free"
    BY <1>2 DEF ClientFallsSilent, USER, PASS, Command
  <2> HIDE DEF r
  <2>2. /\ e \in SessionSet /\ e.pc = r.pc /\ e.listdataconn = r.listdataconn
        /\ e.data_conn_mode = r.data_conn_mode /\ e.pasvFailed = r.pasvFailed
        /\ e.path = r.path /\ e.cwd = r.cwd /\ e.moved = r.moved /\ e.dataconn = r.dataconn /\ e.file = r.file
    BY <1>0, <2>1 DEF SessionSet
  <2>3. Good(e)
    BY <1>0, <2>1, <2>2 DEF Good, Listens, PathKept, Holds
  <2> QED
    BY <2>1, <2>3, OneSession
<1>3. CASE LeaveService(s)
  <2> DEFINE e == Ending(r)
  <2>1. Go(s, e) /\ r.pc = "read"
    BY <1>3 DEF LeaveService
  <2> HIDE DEF r
  <2>2. /\ e \in SessionSet /\ e.pc = "end" /\ e.listdataconn = r.listdataconn
        /\ e.data_conn_mode = "NOT_SET" /\ e.pasvFailed = r.pasvFailed
        /\ e.dataconn = r.dataconn /\ e.file = r.file
    BY <1>0, EndingFields
  <2> HIDE DEF e
  <2>3. Good(e)
    BY <1>0, <2>1, <2>2 DEF Good, Listens, PathKept, Holds
  <2> QED
    BY <2>1, <2>3, OneSession
<1> QED
  BY <1>1, <1>2, <1>3

\* The connection is closed and the mode unset.
LEMMA ClosedFields ==
    ASSUME NEW r \in SessionSet
    PROVE  LET c == DataConClosed(r)
           IN  /\ c \in SessionSet /\ c.pc = r.pc /\ ~c.dataconn /\ c.file = r.file
               /\ c.data_conn_mode = "NOT_SET" /\ c.listdataconn = r.listdataconn
               /\ c.pasvFailed = r.pasvFailed /\ c.path = r.path /\ c.cwd = r.cwd /\ c.moved = r.moved
<1> DEFINE c == DataConClosed(r)
<1>1. c \in SessionSet
  BY DEF DataConClosed, SessionSet
<1>2. /\ c.pc = r.pc /\ ~c.dataconn /\ c.file = r.file
      /\ c.data_conn_mode = "NOT_SET" /\ c.listdataconn = r.listdataconn
      /\ c.pasvFailed = r.pasvFailed /\ c.path = r.path /\ c.cwd = r.cwd /\ c.moved = r.moved
  BY DEF DataConClosed, SessionSet
<1> QED
  BY <1>1, <1>2

\* A listener that could not be set up marks the session, and stays marked.
LEMMA PasvInv ==
    ASSUME SessionInv, NEW s \in Slots, PASV(s)
    PROVE  SessionInv'
<1> DEFINE r == ses[s]
           c == DataConClosed(r)
<1>0. Good(r) /\ r \in SessionSet
  BY DEF SessionInv, Good
<1>1. PICK l \in IF r.listdataconn # "NULL" THEN {r.listdataconn}
                 ELSE IF Available THEN {"unlistening", "listening"} ELSE {"NULL"} :
          Go(s, [c EXCEPT !.listdataconn = l,
                          !.data_conn_mode = IF l = "listening" \/ r.listdataconn # "NULL"
                                             THEN "PASSIVE" ELSE "NOT_SET",
                          !.pasvFailed = @ \/ ~(l = "listening" \/ r.listdataconn # "NULL")])
  BY DEF PASV
<1>2. r.pc = "read" /\ r.listdataconn \in {"NULL", "unlistening", "listening"}
  BY <1>0 DEF PASV, LoggedIn, Command, SessionSet
<1>3. /\ c \in SessionSet /\ c.pc = r.pc /\ ~c.dataconn /\ c.file = r.file
      /\ c.pasvFailed = r.pasvFailed /\ c.path = r.path /\ c.cwd = r.cwd /\ c.moved = r.moved
  BY <1>0, ClosedFields
<1>4. l \in {"NULL", "unlistening", "listening"} /\ (r.listdataconn # "NULL" => l = r.listdataconn)
  BY <1>1, <1>2
<1> HIDE DEF r, c
<1>5. CASE l = "listening" \/ r.listdataconn # "NULL"
  <2> DEFINE e == [c EXCEPT !.listdataconn = l, !.data_conn_mode = "PASSIVE",
                            !.pasvFailed = c.pasvFailed]
  <2>1. Go(s, e)
    <3>1. c.pasvFailed \in BOOLEAN
      BY <1>3 DEF SessionSet
    <3> QED
      BY <1>1, <1>5, <3>1
  <2>2. /\ e \in SessionSet /\ e.pc = r.pc /\ ~e.dataconn /\ e.file = r.file
        /\ e.data_conn_mode = "PASSIVE" /\ e.listdataconn = l
        /\ e.pasvFailed = r.pasvFailed /\ e.path = r.path /\ e.cwd = r.cwd /\ e.moved = r.moved
    BY <1>3, <1>4 DEF SessionSet
  <2> HIDE DEF e
  <2>3. Good(e)
    BY <1>0, <1>2, <1>4, <1>5, <2>2 DEF Good, Listens, PathKept, Holds
  <2> QED
    BY <2>1, <2>3, OneSession
<1>6. CASE ~(l = "listening" \/ r.listdataconn # "NULL")
  <2> DEFINE e == [c EXCEPT !.listdataconn = l, !.data_conn_mode = "NOT_SET",
                            !.pasvFailed = TRUE]
  <2>1. Go(s, e)
    <3>1. (c.pasvFailed \/ ~(l = "listening" \/ r.listdataconn # "NULL")) = TRUE
      BY <1>6
    <3> QED
      BY <1>1, <1>6, <3>1
  <2>2. /\ e \in SessionSet /\ e.pc = r.pc /\ ~e.dataconn /\ e.file = r.file
        /\ e.data_conn_mode = "NOT_SET" /\ e.listdataconn = l
        /\ e.pasvFailed /\ e.path = r.path /\ e.cwd = r.cwd /\ e.moved = r.moved
    BY <1>3, <1>4 DEF SessionSet
  <2> HIDE DEF e
  <2>3. Good(e)
    BY <1>0, <1>2, <2>2 DEF Good, Listens, PathKept, Holds
  <2> QED
    BY <2>1, <2>3, OneSession
<1> QED
  BY <1>5, <1>6

\* PORT, and the end of a listing.
LEMMA PortInv ==
    ASSUME SessionInv, NEW s \in Slots, PORT(s) \/ ListEnds(s)
    PROVE  SessionInv'
<1> DEFINE r == ses[s]
           c == DataConClosed(r)
<1>0. Good(r) /\ r \in SessionSet
  BY DEF SessionInv, Good
<1>1. /\ c \in SessionSet /\ c.pc = r.pc /\ ~c.dataconn /\ c.file = r.file
      /\ c.data_conn_mode = "NOT_SET" /\ c.listdataconn = r.listdataconn
      /\ c.pasvFailed = r.pasvFailed /\ c.path = r.path /\ c.cwd = r.cwd /\ c.moved = r.moved
  BY <1>0, ClosedFields
<1>2. PICK mode \in {"ACTIVE", "NOT_SET"} : Go(s, [c EXCEPT !.pc = "read", !.data_conn_mode = mode])
  <2>1. CASE PORT(s)
    <3>1. r.pc = "read"
      BY <2>1 DEF PORT, LoggedIn, Command
    <3>2. PICK mode \in {"ACTIVE", "NOT_SET"} : Go(s, [c EXCEPT !.data_conn_mode = mode])
      BY <2>1 DEF PORT
    <3> HIDE DEF r, c
    <3>3. [c EXCEPT !.data_conn_mode = mode] = [c EXCEPT !.pc = "read", !.data_conn_mode = mode]
      BY <1>1, <3>1 DEF SessionSet
    <3> QED
      BY <3>2, <3>3
  <2>2. CASE ListEnds(s)
    <3>1. Go(s, [c EXCEPT !.pc = "read"])
      BY <2>2 DEF ListEnds
    <3> HIDE DEF r, c
    <3>2. [c EXCEPT !.pc = "read"] = [c EXCEPT !.pc = "read", !.data_conn_mode = "NOT_SET"]
      BY <1>1 DEF SessionSet
    <3> QED
      BY <3>1, <3>2
  <2> QED
    BY <2>1, <2>2
<1>3. r.pc \in {"read", "list"}
  BY DEF PORT, LoggedIn, Command, ListEnds
<1> HIDE DEF r, c
<1> DEFINE e == [c EXCEPT !.pc = "read", !.data_conn_mode = mode]
<1>4. /\ e \in SessionSet /\ e.pc = "read" /\ ~e.dataconn /\ e.file = r.file
      /\ e.data_conn_mode # "PASSIVE" /\ e.listdataconn = r.listdataconn
      /\ e.pasvFailed = r.pasvFailed /\ e.path = r.path /\ e.cwd = r.cwd /\ e.moved = r.moved
  BY <1>1 DEF SessionSet
<1> HIDE DEF e
<1>5. Good(e)
  BY <1>0, <1>3, <1>4 DEF Good, Listens, PathKept, Holds
<1> QED
  BY <1>2, <1>5, OneSession DEF e

\* Two sessions that differ in their directories only.
Same(c, r) ==
    /\ c \in SessionSet /\ c.pc = r.pc /\ c.listdataconn = r.listdataconn
    /\ c.data_conn_mode = r.data_conn_mode /\ c.pasvFailed = r.pasvFailed
    /\ c.dataconn = r.dataconn /\ c.file = r.file

\* What the client is told, or is not told any more.
LEMMA ToldFields ==
    ASSUME NEW r \in SessionSet, NEW cwd \in Seq(Names)
    PROVE  /\ Same(Told(r, cwd), r) /\ Told(r, cwd).cwd = cwd
           /\ Same(Moved(r), r) /\ Moved(r).moved
           /\ Same(r, r)
<1>1. <<>> \in Seq(Names)
  OBVIOUS
<1>2. Same(Told(r, cwd), r) /\ Told(r, cwd).cwd = cwd
  BY DEF Same, Told, SessionSet
<1>3. Same(Moved(r), r) /\ Moved(r).moved
  BY <1>1 DEF Same, Moved, SessionSet
<1> QED
  BY <1>2, <1>3 DEF Same

\* Looking up the plain name of an entry leaves what the client knows.
LEMMA LookedFields ==
    ASSUME NEW r \in SessionSet, NEW par
    PROVE  /\ Same(Looked(r, par), r)
           /\ Looked(r, par).moved \/ (~Moves(r, par) /\ Looked(r, par) = r)
<1>1. r.cwd \in Seq(Names)
  BY DEF SessionSet
<1>2. Same(Moved(r), r) /\ Moved(r).moved /\ Same(r, r)
  BY <1>1, ToldFields
<1> QED
  BY <1>2 DEF Looked

\* A path is left behind that the client was told of, unless it has moved.
LEMMA PathMoves ==
    ASSUME SessionInv, NEW s \in Slots, ses[s].pc = "read",
           NEW c, Same(c, ses[s]), NEW path \in Seq(Names), path = c.cwd \/ c.moved,
           Go(s, [c EXCEPT !.path = path])
    PROVE  SessionInv' /\ Same(ses'[s], ses[s])
<1> DEFINE r == ses[s]
           e == [c EXCEPT !.path = path]
<1>0. Good(r) /\ r \in SessionSet /\ r.pc = "read" /\ Same(c, r)
  BY DEF SessionInv, Good
<1>1. Go(s, e)
  OBVIOUS
<1> HIDE DEF r
<1>2. Same(e, c) /\ e.path = path /\ e.cwd = c.cwd /\ e.moved = c.moved
  BY <1>0 DEF Same, SessionSet
<1> HIDE DEF e
<1>3. Same(e, r)
  BY <1>0, <1>2 DEF Same
<1>4. Good(e)
  <2>1. e \in SessionSet /\ Listens(e) /\ Holds(e)
    BY <1>0, <1>3 DEF Good, Same, Listens, Holds
  <2>2. PathKept(e)
    BY <1>0, <1>2, <1>3 DEF PathKept, Same
  <2> QED
    BY <2>1, <2>2 DEF Good
<1>5. ses'[s] = e
  BY <1>1 DEF Go, SessionInv
<1> QED
  BY <1>1, <1>3, <1>4, <1>5, OneSession DEF r

\* The commands that look up an entry in place of the working directory, and
\* those that change the directory.
LEMMA PathInv ==
    ASSUME SessionInv, NEW s \in Slots,
           CWD(s) \/ CDUP(s) \/ OnEntry(s) \/ MDTM(s) \/ MKD(s) \/ TransferFails(s)
    PROVE  SessionInv' /\ Same(ses'[s], ses[s])
<1> DEFINE r == ses[s]
           new(par) == path_build(r.path, par)
<1>0. /\ r \in SessionSet /\ r.pc = "read" /\ (r.path = r.cwd \/ r.moved)
      /\ r.path \in Seq(Names)
  BY DEF SessionInv, Good, SessionSet, PathKept, CWD, CDUP, OnEntry, MDTM, MKD, TransferFails,
         LoggedIn, Command
<1>1. CASE CDUP(s)
  <2>1. <<>> \in Seq(Names)
    OBVIOUS
  <2>2. Go(s, [Told(r, <<>>) EXCEPT !.path = <<>>])
    BY <1>1 DEF CDUP
  <2>3. Same(Told(r, <<>>), r) /\ Told(r, <<>>).cwd = <<>>
    BY <1>0, <2>1, ToldFields
  <2> QED
    BY <1>0, <2>1, <2>2, <2>3, PathMoves
<1>2. CASE CWD(s) \/ MKD(s)
  <2>1. PICK par \in Parameters : \/ Go(s, [Told(r, new(par)) EXCEPT !.path = new(par)])
                                  \/ Go(s, [Moved(r) EXCEPT !.path = new(par)])
    BY <1>2 DEF CWD, MKD
  <2>2. new(par) \in Seq(Names)
    BY <1>0, PathFacts
  <2>3. /\ Same(Told(r, new(par)), r) /\ Told(r, new(par)).cwd = new(par)
        /\ Same(Moved(r), r) /\ Moved(r).moved
    BY <1>0, <2>2, ToldFields
  <2> HIDE DEF new
  <2>4. CASE Go(s, [Told(r, new(par)) EXCEPT !.path = new(par)])
    BY <1>0, <2>2, <2>3, <2>4, PathMoves
  <2>5. CASE Go(s, [Moved(r) EXCEPT !.path = new(par)])
    BY <1>0, <2>2, <2>3, <2>5, PathMoves
  <2> QED
    BY <2>1, <2>4, <2>5
<1>3. CASE OnEntry(s) \/ MDTM(s) \/ TransferFails(s)
  <2>1. PICK par \in Parameters : LookUp(s, par)
    BY <1>3 DEF OnEntry, MDTM, TransferFails
  <2> DEFINE c == Looked(r, par)
             p == IF Fits(new(par)) THEN path_up_a_level(new(par)) ELSE new(par)
  <2>2. Go(s, [c EXCEPT !.path = p])
    BY <2>1 DEF LookUp
  <2>3. new(par) \in Seq(Names) /\ (par = "entry" => path_up_a_level(new(par)) = r.path)
    BY <1>0, PathFacts
  <2>4. path_up_a_level(new(par)) \in Seq(Names)
    BY <2>3, PathFacts
  <2>5. Same(c, r) /\ (c.moved \/ (~Moves(r, par) /\ c = r))
    BY <1>0, LookedFields
  <2>6. p \in Seq(Names) /\ (~Moves(r, par) => p = r.path)
    BY <2>3, <2>4 DEF Moves
  <2> HIDE DEF p, c
  <2>7. p = c.cwd \/ c.moved
    BY <1>0, <2>5, <2>6
  <2> QED
    BY <1>0, <2>2, <2>5, <2>6, <2>7, PathMoves
<1> QED
  BY <1>1, <1>2, <1>3

\* A listing without a data connection changes nothing; with one it goes on.
LEMMA ListInv ==
    ASSUME SessionInv, NEW s \in Slots, ListFails(s) \/ LIST(s)
    PROVE  SessionInv'
<1> DEFINE r == ses[s]
           e == [r EXCEPT !.pc = "list", !.dataconn = TRUE]
<1>0. Good(r) /\ r \in SessionSet /\ r.pc = "read"
  BY DEF SessionInv, Good, ListFails, LIST, LoggedIn, Command
<1>1. CASE ListFails(s)
  BY <1>1 DEF ListFails, SessionInv
<1>2. CASE LIST(s)
  <2>1. Go(s, e)
    BY <1>2 DEF LIST
  <2> HIDE DEF r
  <2>2. /\ e \in SessionSet /\ e.pc = "list" /\ e.listdataconn = r.listdataconn
        /\ e.data_conn_mode = r.data_conn_mode /\ e.pasvFailed = r.pasvFailed
        /\ e.path = r.path /\ e.cwd = r.cwd /\ e.moved = r.moved /\ e.file = r.file /\ e.dataconn
    BY <1>0 DEF SessionSet
  <2> HIDE DEF e
  <2>3. Good(e)
    BY <1>0, <2>2 DEF Good, Listens, PathKept, Holds
  <2> QED
    BY <2>1, <2>3, OneSession
<1> QED
  BY <1>1, <1>2

\* A transfer goes to its file, and comes back to the directory it left.
LEMMA TransferInv ==
    ASSUME SessionInv, NEW s \in Slots, TransferStarts(s) \/ RetrEnds(s) \/ StorEnds(s)
    PROVE  SessionInv'
<1> DEFINE r == ses[s]
           c == DataConClosed(r)
<1>0. Good(r) /\ r \in SessionSet /\ r.path \in Seq(Names) /\ r.cwd \in Seq(Names)
  BY DEF SessionInv, Good, SessionSet
<1>1. CASE TransferStarts(s)
  <2>1. PICK par \in {"entry", "below", "absolute"}, transfer \in {"retr", "stor"} :
            /\ Fits(path_build(r.path, par))
            /\ Go(s, [Looked(r, par) EXCEPT !.pc = transfer, !.dataconn = TRUE, !.file = TRUE,
                                           !.path = path_build(r.path, par)])
    BY <1>1 DEF TransferStarts
  <2> DEFINE new == path_build(r.path, par)
             d == Looked(r, par)
             e == [d EXCEPT !.pc = transfer, !.dataconn = TRUE, !.file = TRUE, !.path = new]
  <2>2. r.path = r.cwd \/ r.moved
    BY <1>0, <1>1 DEF TransferStarts, LoggedIn, Command, Good, PathKept
  <2>3. new \in Seq(Names) /\ (par = "entry" => path_up_a_level(new) = r.path)
    BY <1>0, PathFacts DEF Parameters
  <2>4. Same(d, r) /\ (d.moved \/ (~Moves(r, par) /\ d = r))
    BY <1>0, LookedFields
  <2>5. path_up_a_level(new) = d.cwd \/ d.moved
    BY <2>2, <2>3, <2>4 DEF Moves
  <2>6. Go(s, e)
    BY <2>1
  <2> HIDE DEF r, new, d
  <2>7. /\ e \in SessionSet /\ e.pc = transfer /\ e.listdataconn = r.listdataconn
        /\ e.data_conn_mode = r.data_conn_mode /\ e.pasvFailed = r.pasvFailed
        /\ e.path = new /\ e.cwd = d.cwd /\ e.moved = d.moved /\ e.dataconn /\ e.file
    BY <2>1, <2>3, <2>4 DEF SessionSet, Same
  <2> HIDE DEF e
  <2>8. Good(e)
    BY <1>0, <2>1, <2>5, <2>7 DEF Good, Listens, PathKept, Holds
  <2> QED
    BY <2>6, <2>8, OneSession
<1>2. CASE RetrEnds(s) \/ StorEnds(s)
  <2>1. /\ c \in SessionSet /\ ~c.dataconn
        /\ c.data_conn_mode = "NOT_SET" /\ c.listdataconn = r.listdataconn
        /\ c.pasvFailed = r.pasvFailed /\ c.path = r.path /\ c.cwd = r.cwd /\ c.moved = r.moved
    BY <1>0, ClosedFields
  <2>2. r.pc \in {"retr", "stor"}
        /\ Go(s, [c EXCEPT !.pc = "read", !.file = FALSE, !.path = path_up_a_level(@)])
    BY <1>2 DEF RetrEnds, StorEnds, TransferEnds
  <2> DEFINE up == path_up_a_level(r.path)
  <2>3. up \in Seq(Names) /\ (up = r.cwd \/ r.moved)
    BY <1>0, <2>2, PathFacts DEF Good, PathKept, Parameters
  <2> HIDE DEF r, c, up
  <2> DEFINE e == [c EXCEPT !.pc = "read", !.file = FALSE, !.path = up]
  <2>4. Go(s, e)
    BY <2>1, <2>2 DEF up
  <2>5. /\ e \in SessionSet /\ e.pc = "read" /\ e.listdataconn = r.listdataconn
        /\ e.data_conn_mode = "NOT_SET" /\ e.pasvFailed = r.pasvFailed
        /\ e.path = up /\ e.cwd = r.cwd /\ e.moved = r.moved /\ ~e.dataconn /\ ~e.file
    BY <1>0, <2>1, <2>3 DEF SessionSet
  <2> HIDE DEF e
  <2>6. Good(e)
    BY <1>0, <2>3, <2>5 DEF Good, Listens, PathKept, Holds
  <2> QED
    BY <2>4, <2>6, OneSession
<1> QED
  BY <1>1, <1>2

\* Every command keeps it.
LEMMA SessionStep == SessionInv /\ [FtpNext]_ftpVars => SessionInv'
<1> SUFFICES ASSUME SessionInv, [FtpNext]_ftpVars PROVE SessionInv'
  OBVIOUS
<1>1. CASE UNCHANGED ftpVars
  BY <1>1 DEF ftpVars, SessionInv
<1>2. ASSUME NEW s \in Slots, Session(s) \/ Client(s) PROVE SessionInv'
  <2>1. CASE ClientConnects(s)
    BY <2>1 DEF ClientConnects, SessionInv
  <2> QED
    BY <1>2, <2>1, LifeInv, PasvInv, PortInv, PathInv, ListInv, TransferInv DEF Session, Client
<1> QED
  BY <1>1, <1>2 DEF FtpNext

\* The inductive invariant of all sessions.
LEMMA SessionAlways == FtpSpec => []SessionInv
<1>1. FtpInit => SessionInv
  BY NewSession DEF FtpInit, SessionInv, Good
<1> QED
  BY <1>1, SessionStep, PTL DEF FtpSpec

\* A client that was told 227 finds a listener that listens, unless an earlier
\* PASV of its session has failed, in every session and whatever other commands
\* and failures came between.
THEOREM PassiveDoesListen == FtpSpec => []PassiveListens
<1>1. SessionInv => PassiveListens
  BY DEF SessionInv, Good, Listens, PassiveListens
<1> QED
  BY <1>1, SessionAlways, PTL

\* The path that a command on an entry builds in the buffer of the working
\* directory is taken back, for paths of any length and any number of such
\* commands, failed or not: the session stays in the directory of the last 250
\* until a CWD fails, a MKD succeeds, or a parameter is not the plain name of an
\* entry or makes the path too long.
THEOREM DirectoryIsKept == FtpSpec => []WorkingDirectoryKept
<1>1. SessionInv => WorkingDirectoryKept
  BY DEF SessionInv, Good, PathKept, WorkingDirectoryKept
<1> QED
  BY <1>1, SessionAlways, PTL
-----------------------------------------------------------------------------
(* Nothing is leaked.  A step changes one session, so every set of slots   *)
(* that is counted gains or loses that slot only.                          *)

Active    == {s \in Slots : ses[s].pc # "free"}
Listening == {s \in Slots : ses[s].listdataconn # "NULL"}
Connected == {s \in Slots : ses[s].dataconn}
Opened    == {s \in Slots : ses[s].file}

\* The connections that are not in a mailbox.
Own == netconns - Cardinality(mbox)

\* A mailbox belongs to a listener.
MboxInv ==
    /\ netconns \in Int
    /\ mbox \in SUBSET (Slots \X (1..MailboxSize))
    /\ \A w \in mbox : ses[w[1]].listdataconn = "listening"

CountInv ==
    /\ SessionInv /\ MboxInv
    /\ Own \in Nat /\ Files \in Nat /\ listed \in Nat
    /\ Own = Cardinality(Active) + Cardinality(Listening) + Cardinality(Connected)
    /\ Files = listed + Cardinality(Opened)

\* Two sets of slots that differ in one slot at most.
LEMMA CountOne ==
    ASSUME NEW A \in SUBSET Slots, NEW B \in SUBSET Slots, NEW s \in Slots,
           \A q \in Slots : q # s => (q \in A <=> q \in B)
    PROVE  /\ Cardinality(A) \in Nat /\ Cardinality(B) \in Nat
           /\ Cardinality(B) + Bit(s \in A) = Cardinality(A) + Bit(s \in B)
<1>1. IsFiniteSet(A) /\ IsFiniteSet(B)
  BY FtpAssumption, FS_Subset
<1>2. Cardinality(A) \in Nat /\ Cardinality(B) \in Nat
  BY <1>1, FS_CardinalityType
<1>3. CASE s \in A /\ s \in B
  <2>1. A = B
    BY <1>3
  <2> QED
    BY <1>2, <1>3, <2>1 DEF Bit
<1>4. CASE s \notin A /\ s \notin B
  <2>1. A = B
    BY <1>4
  <2> QED
    BY <1>2, <1>4, <2>1 DEF Bit
<1>5. CASE s \in A /\ s \notin B
  <2>1. A = B \cup {s}
    BY <1>5
  <2>2. Cardinality(A) = Cardinality(B) + 1
    BY <1>1, <1>5, <2>1, FS_AddElement
  <2> QED
    BY <1>2, <1>5, <2>2 DEF Bit
<1>6. CASE s \notin A /\ s \in B
  <2>1. B = A \cup {s}
    BY <1>6
  <2>2. Cardinality(B) = Cardinality(A) + 1
    BY <1>1, <1>6, <2>1, FS_AddElement
  <2> QED
    BY <1>2, <1>6, <2>2 DEF Bit
<1> QED
  BY <1>3, <1>4, <1>5, <1>6

\* The mailboxes are finite.
LEMMA MboxFinite == MboxInv => IsFiniteSet(mbox) /\ Cardinality(mbox) \in Nat
<1> SUFFICES ASSUME MboxInv PROVE IsFiniteSet(mbox) /\ Cardinality(mbox) \in Nat
  OBVIOUS
<1>1. IsFiniteSet(1..MailboxSize)
  BY FtpAssumption, FS_Interval
<1>2. IsFiniteSet(Slots \X (1..MailboxSize))
  BY <1>1, FtpAssumption, FS_Product
<1>3. IsFiniteSet(mbox)
  BY <1>2, FS_Subset DEF MboxInv
<1> QED
  BY <1>3, FS_CardinalityType

\* What a step of one session does to the counts.
LEMMA CountStep ==
    ASSUME SessionInv, NEW s \in Slots, NEW e \in SessionSet, Go(s, e)
    PROVE  /\ \A n \in {Cardinality(Active), Cardinality(Listening), Cardinality(Connected),
                        Cardinality(Opened), Cardinality(Active'), Cardinality(Listening'),
                        Cardinality(Connected'), Cardinality(Opened')} : n \in Nat
           /\ Cardinality(Active') + Bit(ses[s].pc # "free")
              = Cardinality(Active) + Bit(e.pc # "free")
           /\ Cardinality(Listening') + Bit(ses[s].listdataconn # "NULL")
              = Cardinality(Listening) + Bit(e.listdataconn # "NULL")
           /\ Cardinality(Connected') + Bit(ses[s].dataconn)
              = Cardinality(Connected) + Bit(e.dataconn)
           /\ Cardinality(Opened') + Bit(ses[s].file) = Cardinality(Opened) + Bit(e.file)
<1>1. ses'[s] = e /\ \A q \in Slots : q # s => ses'[q] = ses[q]
  BY DEF Go, SessionInv
<1>2. /\ Cardinality(Active) \in Nat /\ Cardinality(Active') \in Nat
      /\ Cardinality(Active') + Bit(s \in Active) = Cardinality(Active) + Bit(s \in Active')
  <2>1. Active \in SUBSET Slots /\ Active' \in SUBSET Slots
        /\ \A q \in Slots : q # s => (q \in Active <=> q \in Active')
    BY <1>1 DEF Active
  <2> QED
    BY <2>1, CountOne
<1>3. /\ Cardinality(Listening) \in Nat /\ Cardinality(Listening') \in Nat
      /\ Cardinality(Listening') + Bit(s \in Listening)
         = Cardinality(Listening) + Bit(s \in Listening')
  <2>1. Listening \in SUBSET Slots /\ Listening' \in SUBSET Slots
        /\ \A q \in Slots : q # s => (q \in Listening <=> q \in Listening')
    BY <1>1 DEF Listening
  <2> QED
    BY <2>1, CountOne
<1>4. /\ Cardinality(Connected) \in Nat /\ Cardinality(Connected') \in Nat
      /\ Cardinality(Connected') + Bit(s \in Connected)
         = Cardinality(Connected) + Bit(s \in Connected')
  <2>1. Connected \in SUBSET Slots /\ Connected' \in SUBSET Slots
        /\ \A q \in Slots : q # s => (q \in Connected <=> q \in Connected')
    BY <1>1 DEF Connected
  <2> QED
    BY <2>1, CountOne
<1>5. /\ Cardinality(Opened) \in Nat /\ Cardinality(Opened') \in Nat
      /\ Cardinality(Opened') + Bit(s \in Opened) = Cardinality(Opened) + Bit(s \in Opened')
  <2>1. Opened \in SUBSET Slots /\ Opened' \in SUBSET Slots
        /\ \A q \in Slots : q # s => (q \in Opened <=> q \in Opened')
    BY <1>1 DEF Opened
  <2> QED
    BY <2>1, CountOne
<1>6. /\ Bit(s \in Active) = Bit(ses[s].pc # "free") /\ Bit(s \in Active') = Bit(e.pc # "free")
      /\ Bit(s \in Listening) = Bit(ses[s].listdataconn # "NULL")
      /\ Bit(s \in Listening') = Bit(e.listdataconn # "NULL")
  BY <1>1 DEF Bit, Active, Listening
<1>7. /\ Bit(s \in Connected) = Bit(ses[s].dataconn) /\ Bit(s \in Connected') = Bit(e.dataconn)
      /\ Bit(s \in Opened) = Bit(ses[s].file) /\ Bit(s \in Opened') = Bit(e.file)
  BY <1>1 DEF Bit, Connected, Opened
<1> QED
  BY <1>2, <1>3, <1>4, <1>5, <1>6, <1>7

\* What a step does to the connections that are not in a mailbox.
LEMMA OwnStep ==
    ASSUME MboxInv, MboxInv', NEW k \in Int, NEW m \in Int, netconns' = (netconns + k) + m,
           Cardinality(mbox') = Cardinality(mbox) + m
    PROVE  Own' = Own + k
<1> DEFINE n1 == netconns'   b == Cardinality(mbox)   b1 == Cardinality(mbox')
<1>1. n1 = (netconns + k) + m /\ b1 = b + m /\ netconns \in Int /\ b \in Nat
  BY MboxFinite DEF MboxInv
<1> HIDE DEF n1, b, b1
<1>2. n1 - b1 = (netconns - b) + k
  BY <1>1
<1> QED
  BY <1>2 DEF Own, n1, b, b1

\* A step that leaves the mailboxes alone.
LEMMA OwnOnly ==
    ASSUME MboxInv, MboxInv', NEW k \in Int, netconns' = netconns + k, mbox' = mbox
    PROVE  Own' = Own + k
<1>1. netconns' = (netconns + k) + 0 /\ Cardinality(mbox') = Cardinality(mbox) + 0
  BY MboxFinite DEF MboxInv
<1> QED
  BY <1>1, OwnStep

\* A data connection is a new one, or one out of the mailbox.
LEMMA OwnData ==
    ASSUME MboxInv, MboxInv', NEW s \in Slots, DataConOpens(s)
    PROVE  Own' = Own + 1
<1>1. CASE netconns' = netconns + 1 /\ mbox' = mbox
  BY <1>1, OwnOnly
<1>2. CASE \E w \in Mailbox(s) : mbox' = mbox \ {w} /\ netconns' = netconns
  <2>1. PICK w \in mbox : mbox' = mbox \ {w} /\ netconns' = netconns
    BY <1>2 DEF Mailbox
  <2>2. Cardinality(mbox') = Cardinality(mbox) - 1
    BY <2>1, MboxFinite, FS_RemoveElement
  <2>3. /\ netconns' = (netconns + 1) + (-1) /\ Cardinality(mbox') = Cardinality(mbox) + (-1)
        /\ 1 \in Int /\ -1 \in Int
    BY <2>1, <2>2, MboxFinite DEF MboxInv
  <2> QED
    BY <2>3, OwnStep
<1> QED
  BY <1>1, <1>2 DEF DataConOpens

\* A client that waits to be accepted is in a mailbox.
LEMMA ConnectCount ==
    ASSUME CountInv, SessionInv', MboxInv', NEW s \in Slots, ClientConnects(s)
    PROVE  CountInv'
<1>1. PICK i \in 1..MailboxSize : <<s, i>> \notin mbox /\ mbox' = mbox \cup {<<s, i>>}
  BY DEF ClientConnects
<1>2. Cardinality(mbox') = Cardinality(mbox) + 1
  BY <1>1, MboxFinite, FS_AddElement DEF CountInv
<1>3. netconns' = (netconns + 0) + 1 /\ UNCHANGED <<ses, Files, listed>>
  BY DEF ClientConnects, fsVars, CountInv, MboxInv
<1>4. Own' = Own + 0
  BY <1>2, <1>3, OwnStep DEF CountInv
<1>5. Active' = Active /\ Listening' = Listening /\ Connected' = Connected /\ Opened' = Opened
  BY <1>3 DEF Active, Listening, Connected, Opened
<1>6. Own' = Own /\ Files' = Files /\ listed' = listed
  BY <1>3, <1>4 DEF CountInv
<1> QED
  BY <1>5, <1>6 DEF CountInv

\* A listener stays until the end of its session.
LEMMA ListenerKept ==
    ASSUME SessionInv, NEW s \in Slots, Session(s) \/ Client(s),
           ses[s].listdataconn = "listening", ~EndOfTask(s)
    PROVE  ses'[s].listdataconn = "listening"
<1> DEFINE r == ses[s]
           c == DataConClosed(r)
<1>0. r \in SessionSet /\ Good(r) /\ c \in SessionSet /\ c.listdataconn = r.listdataconn
  BY ClosedFields DEF SessionInv, Good
<1>1. ASSUME NEW e, Go(s, e), e.listdataconn = "listening" PROVE ses'[s].listdataconn = "listening"
  BY <1>1 DEF Go, SessionInv
<1>2. CASE ClientConnects(s) \/ ListFails(s)
  BY <1>2 DEF ClientConnects, ListFails
<1>3. CASE FtpAccept(s)
  BY <1>0, <1>3 DEF FtpAccept, Good, Holds, NoSession
<1>4. CASE ClientFallsSilent(s) \/ USER(s) \/ PASS(s) \/ LIST(s)
  <2>1. PICK e \in {[r EXCEPT !.silent = TRUE], [r EXCEPT !.user = "NO_PASS"],
                    [r EXCEPT !.user = "LOGGED_IN"],
                    [r EXCEPT !.pc = "list", !.dataconn = TRUE]} : Go(s, e)
    BY <1>4 DEF ClientFallsSilent, USER, PASS, LIST
  <2>2. r.listdataconn = "listening"
    OBVIOUS
  <2> HIDE DEF r
  <2>3. e.listdataconn = "listening"
    BY <1>0, <2>1, <2>2 DEF SessionSet
  <2> QED
    BY <1>1, <2>1, <2>3
<1>5. CASE LeaveService(s)
  <2>1. Go(s, Ending(r)) /\ Ending(r).listdataconn = r.listdataconn
    BY <1>0, <1>5, EndingFields DEF LeaveService
  <2> QED
    BY <1>1, <2>1
<1>6. CASE CWD(s) \/ CDUP(s) \/ OnEntry(s) \/ MDTM(s) \/ MKD(s) \/ TransferFails(s)
  BY <1>6, PathInv DEF Same
<1>7. CASE PASV(s)
  <2>1. PICK mode, failed : Go(s, [c EXCEPT !.listdataconn = r.listdataconn,
                                            !.data_conn_mode = mode, !.pasvFailed = failed])
    BY <1>7 DEF PASV
  <2>2. r.listdataconn = "listening"
    OBVIOUS
  <2> HIDE DEF r, c
  <2> QED
    BY <1>0, <1>1, <2>1, <2>2 DEF SessionSet
<1>8. CASE PORT(s) \/ ListEnds(s)
  <2>1. \/ \E mode : Go(s, [c EXCEPT !.data_conn_mode = mode])
        \/ Go(s, [c EXCEPT !.pc = "read"])
    BY <1>8 DEF PORT, ListEnds
  <2>2. r.listdataconn = "listening"
    OBVIOUS
  <2> HIDE DEF r, c
  <2> QED
    BY <1>0, <1>1, <2>1, <2>2 DEF SessionSet
<1>9. CASE RetrEnds(s) \/ StorEnds(s)
  <2>1. PICK p : Go(s, [c EXCEPT !.pc = "read", !.file = FALSE, !.path = p])
    BY <1>9 DEF RetrEnds, StorEnds, TransferEnds
  <2>2. r.listdataconn = "listening"
    OBVIOUS
  <2> HIDE DEF r, c
  <2> QED
    BY <1>0, <1>1, <2>1, <2>2 DEF SessionSet
<1>10. CASE TransferStarts(s)
  <2>1. PICK par, pc, p : Go(s, [Looked(r, par) EXCEPT !.pc = pc, !.dataconn = TRUE,
                                                       !.file = TRUE, !.path = p])
    BY <1>10 DEF TransferStarts
  <2> DEFINE d == Looked(r, par)
  <2>2. Same(d, r) /\ r.listdataconn = "listening"
    BY <1>0, LookedFields
  <2> HIDE DEF r, d
  <2> QED
    BY <1>1, <2>1, <2>2 DEF SessionSet, Same, d
<1> QED
  BY <1>2, <1>3, <1>4, <1>5, <1>6, <1>7, <1>8, <1>9, <1>10 DEF Session, Client

\* Mailboxes are filled while there is a listener, and emptied with it.
LEMMA MboxStep == SessionInv /\ MboxInv /\ [FtpNext]_ftpVars => MboxInv'
<1> SUFFICES ASSUME SessionInv, MboxInv, [FtpNext]_ftpVars PROVE MboxInv'
  OBVIOUS
<1>1. CASE UNCHANGED ftpVars
  BY <1>1 DEF ftpVars, netVars, MboxInv
<1>2. ASSUME NEW s \in Slots, Session(s) \/ Client(s) PROVE MboxInv'
  <2>1. \A q \in Slots : q # s => ses'[q] = ses[q]
    BY <1>2 DEF SessionInv, Session, Client, Go, LeaveService, EndOfTask, ListEnds, RetrEnds,
       StorEnds, TransferEnds, FtpAccept, ClientConnects, ClientFallsSilent, USER, PASS, PASV,
       PORT, CWD, CDUP, OnEntry, MDTM, MKD, ListFails, LIST, TransferFails, TransferStarts, LookUp
  <2>2. \A w \in mbox : w[1] \in Slots /\ w \in Slots \X (1..MailboxSize)
    BY DEF MboxInv
  <2>3. Cardinality(Mailbox(s)) \in Int
    <3>1. IsFiniteSet(Mailbox(s))
      BY MboxFinite, FS_Subset DEF Mailbox
    <3> QED
      BY <3>1, FS_CardinalityType
  <2>4. netconns' \in Int
    <3>1. \A b : Bit(b) \in Int
      BY DEF Bit
    <3>2. \A r : Held(r) \in Int
      BY <3>1 DEF Held
    <3>3. CASE EndOfTask(s)
      BY <2>3, <3>2, <3>3 DEF EndOfTask, MboxInv
    <3>4. CASE PASV(s) \/ PORT(s)
      <4>1. PICK b \in Int, d \in Int : netconns' = netconns + (b - d)
        <5>1. CASE PASV(s)
          <6>1. PICK l : netconns' = netconns + (Bit(l # "NULL") - Bit(ses[s].listdataconn # "NULL"))
            BY <5>1 DEF PASV
          <6> QED
            BY <3>1, <6>1
        <5>2. CASE PORT(s)
          <6>1. netconns' = netconns - Bit(ses[s].dataconn) /\ netconns \in Int
            BY <5>2 DEF PORT, MboxInv
          <6>2. netconns' = netconns + (0 - Bit(ses[s].dataconn))
            BY <3>1, <6>1
          <6> QED
            BY <3>1, <6>2
        <5> QED
          BY <3>4, <5>1, <5>2
      <4> QED
        BY <4>1 DEF MboxInv
    <3> QED
      BY <1>2, <3>3, <3>4 DEF Session, Client, LeaveService, ListEnds, RetrEnds,
         StorEnds, TransferEnds, FtpAccept, ClientConnects, ClientFallsSilent, USER, PASS,
         CWD, CDUP, OnEntry, MDTM, MKD, ListFails, LIST, TransferFails, TransferStarts,
         DataConOpens, netVars, MboxInv
  <2>5. CASE EndOfTask(s)
    <3>1. mbox' = {w \in mbox : w[1] # s}
      BY <2>5 DEF EndOfTask, Mailbox
    <3> QED
      BY <2>1, <2>2, <2>4, <3>1 DEF MboxInv
  <2>6. CASE ~EndOfTask(s)
    <3>1. \A q \in Slots : ses[q].listdataconn = "listening" => ses'[q].listdataconn = "listening"
      BY <1>2, <2>1, <2>6, ListenerKept
    <3>2. \/ mbox' \subseteq mbox
          \/ \E i \in 1..MailboxSize : mbox' = mbox \cup {<<s, i>>} /\ ses[s].listdataconn = "listening"
      BY <1>2, <2>6 DEF Session, Client, LeaveService, ListEnds, RetrEnds,
         StorEnds, TransferEnds, FtpAccept, ClientConnects, ClientFallsSilent, USER, PASS, PASV,
         PORT, CWD, CDUP, OnEntry, MDTM, MKD, ListFails, LIST, TransferFails, TransferStarts,
         DataConOpens, netVars
    <3>3. CASE mbox' \subseteq mbox
      BY <2>2, <2>4, <3>1, <3>3 DEF MboxInv
    <3>4. CASE \E i \in 1..MailboxSize :
                  mbox' = mbox \cup {<<s, i>>} /\ ses[s].listdataconn = "listening"
      <4>1. PICK i \in 1..MailboxSize : mbox' = mbox \cup {<<s, i>>}
        BY <3>4
      <4>2. ses[s].listdataconn = "listening" /\ <<s, i>>[1] = s
        BY <3>4
      <4> QED
        BY <2>2, <2>4, <3>1, <4>1, <4>2 DEF MboxInv
    <3> QED
      BY <3>2, <3>3, <3>4
  <2> QED
    BY <2>5, <2>6
<1> QED
  BY <1>1, <1>2 DEF FtpNext

\* The counts go with the step of a session if the numbers change by what the
\* session takes and gives back.
LEMMA CountKept ==
    ASSUME CountInv, NEW s \in Slots, NEW e \in SessionSet, Go(s, e), SessionInv', MboxInv',
           Own' \in Int, Files' \in Int, listed' \in Nat,
           Own' + (Bit(ses[s].pc # "free") + Held(ses[s]))
               = Own + (Bit(e.pc # "free") + Held(e)),
           (Files' - listed') + Bit(ses[s].file) = (Files - listed) + Bit(e.file)
    PROVE  CountInv'
<1> DEFINE a == Cardinality(Active)      a1 == Cardinality(Active')
           l == Cardinality(Listening)   l1 == Cardinality(Listening')
           c == Cardinality(Connected)   c1 == Cardinality(Connected')
           o == Cardinality(Opened)      o1 == Cardinality(Opened')
           A == Bit(ses[s].pc # "free")          A1 == Bit(e.pc # "free")
           L == Bit(ses[s].listdataconn # "NULL") L1 == Bit(e.listdataconn # "NULL")
           C == Bit(ses[s].dataconn)             C1 == Bit(e.dataconn)
           O == Bit(ses[s].file)                 O1 == Bit(e.file)
           n1 == Own'   f1 == Files'   d1 == listed'
<1>1. /\ a \in Nat /\ l \in Nat /\ c \in Nat /\ o \in Nat
      /\ a1 \in Nat /\ l1 \in Nat /\ c1 \in Nat /\ o1 \in Nat
      /\ a1 + A = a + A1 /\ l1 + L = l + L1 /\ c1 + C = c + C1 /\ o1 + O = o + O1
  BY CountStep DEF CountInv
<1>2. /\ A \in Nat /\ A1 \in Nat /\ L \in Nat /\ L1 \in Nat
      /\ C \in Nat /\ C1 \in Nat /\ O \in Nat /\ O1 \in Nat
  BY DEF Bit
<1>3. /\ n1 + (A + (L + C)) = Own + (A1 + (L1 + C1))
      /\ (f1 - d1) + O = (Files - listed) + O1
      /\ n1 \in Int /\ f1 \in Int /\ d1 \in Nat
  BY DEF Held
<1>4. /\ Own \in Nat /\ Files \in Nat /\ listed \in Nat
      /\ Own = (a + l) + c /\ Files = listed + o
  BY DEF CountInv
<1> HIDE DEF a, a1, l, l1, c, c1, o, o1, A, A1, L, L1, C, C1, O, O1, n1, f1, d1
<1> DEFINE n == Own
<1> HIDE DEF n
<1>5. n1 = (a1 + l1) + c1 /\ f1 = d1 + o1
  <2>1. n \in Nat /\ n = (a + l) + c /\ n1 + (A + (L + C)) = n + (A1 + (L1 + C1))
    BY <1>3, <1>4 DEF n
  <2>2. n1 = (a1 + l1) + c1
    BY <1>1, <1>2, <1>3, <2>1
  <2>3. f1 = d1 + o1
    BY <1>1, <1>2, <1>3, <1>4
  <2> QED
    BY <2>2, <2>3
<1>6. n1 \in Nat /\ f1 \in Nat
  BY <1>1, <1>3, <1>5
<1> QED
  BY <1>5, <1>6 DEF CountInv, n1, f1, d1, a1, l1, c1, o1, Active, Listening, Connected, Opened

\* A step that takes and gives back nothing.
LEMMA NothingTaken ==
    ASSUME CountInv, NEW s \in Slots, NEW e \in SessionSet, Go(s, e), SessionInv', MboxInv',
           UNCHANGED <<netVars, fsVars>>,
           ses[s].pc # "free", e.pc # "free", e.listdataconn = ses[s].listdataconn,
           e.dataconn = ses[s].dataconn, e.file = ses[s].file
    PROVE  CountInv'
<1>1. Own' = Own /\ Files' = Files /\ listed' = listed
      /\ Own \in Nat /\ Files \in Nat /\ listed \in Nat
  BY DEF netVars, fsVars, CountInv, Own
<1>2. /\ Bit(ses[s].pc # "free") = Bit(e.pc # "free") /\ Held(ses[s]) = Held(e)
      /\ Bit(ses[s].file) = Bit(e.file)
  BY DEF Bit, Held
<1>3. Own' + (Bit(ses[s].pc # "free") + Held(ses[s]))
          = Own + (Bit(e.pc # "free") + Held(e))
  BY <1>1, <1>2
<1>4. (Files' - listed') + Bit(ses[s].file) = (Files - listed) + Bit(e.file)
  BY <1>1, <1>2
<1>5. Own' \in Int /\ Files' \in Int /\ listed' \in Nat
  BY <1>1
<1> QED
  BY <1>3, <1>4, <1>5, CountKept

\* A step that takes or gives back connections, and a file with them.
LEMMA Taken ==
    ASSUME CountInv, NEW s \in Slots, NEW e \in SessionSet, Go(s, e), SessionInv', MboxInv',
           NEW held \in Nat, NEW held1 \in Nat, NEW f \in Nat, NEW f1 \in Nat,
           Bit(ses[s].pc # "free") + Held(ses[s]) = held,
           Bit(e.pc # "free") + Held(e) = held1,
           Bit(ses[s].file) = f, Bit(e.file) = f1,
           Own' = Own + (held1 - held),
           listed' \in Nat, Files' \in Int,
           Files' - listed' = (Files - listed) + (f1 - f)
    PROVE  CountInv'
<1>1. Own \in Nat /\ Files \in Nat /\ listed \in Nat
  BY DEF CountInv
<1>2. Own' + held = Own + held1 /\ Own' \in Int
  BY <1>1
<1> DEFINE x == Files' - listed'
<1>3. x = (Files - listed) + (f1 - f)
  OBVIOUS
<1> HIDE DEF x
<1>4. x + f = (Files - listed) + f1
  BY <1>1, <1>3
<1> QED
  BY <1>2, <1>4, CountKept DEF x

\* Commands that move no data, and the failure of those that do.
LEMMA QuietCount ==
    ASSUME CountInv, SessionInv', MboxInv', NEW s \in Slots,
           \/ ClientFallsSilent(s) \/ LeaveService(s) \/ USER(s) \/ PASS(s) \/ CWD(s) \/ CDUP(s)
           \/ OnEntry(s) \/ MDTM(s) \/ MKD(s) \/ TransferFails(s)
    PROVE  CountInv'
<1> DEFINE r == ses[s]
<1>0. r \in SessionSet /\ SessionInv
  BY DEF CountInv, SessionInv
<1>1. UNCHANGED <<netVars, fsVars>> /\ r.pc # "free"
  BY DEF ClientFallsSilent, LeaveService, USER, PASS, CWD, CDUP, OnEntry, MDTM, MKD,
         TransferFails, LoggedIn, Command
<1>2. ASSUME NEW e, Go(s, e), e.pc # "free", e.listdataconn = r.listdataconn,
             e.dataconn = r.dataconn, e.file = r.file
      PROVE  CountInv'
  <2>1. e \in SessionSet
    BY <1>0, <1>2 DEF Go, SessionInv
  <2> QED
    BY <1>1, <1>2, <2>1, NothingTaken
<1>3. CASE ClientFallsSilent(s) \/ USER(s) \/ PASS(s)
  <2>1. PICK e \in {[r EXCEPT !.silent = TRUE], [r EXCEPT !.user = "NO_PASS"],
                    [r EXCEPT !.user = "LOGGED_IN"]} : Go(s, e)
    BY <1>3 DEF ClientFallsSilent, USER, PASS
  <2> HIDE DEF r
  <2>2. /\ e.pc # "free" /\ e.listdataconn = r.listdataconn
        /\ e.dataconn = r.dataconn /\ e.file = r.file
    BY <1>0, <1>1, <2>1 DEF SessionSet
  <2> QED
    BY <1>2, <2>1, <2>2
<1>4. CASE LeaveService(s)
  BY <1>0, <1>2, <1>4, EndingFields DEF LeaveService
<1>5. CASE CWD(s) \/ CDUP(s) \/ OnEntry(s) \/ MDTM(s) \/ MKD(s) \/ TransferFails(s)
  <2>1. Same(ses'[s], r)
    BY <1>0, <1>5, PathInv
  <2>2. PICK e : Go(s, e)
    BY <1>5 DEF CWD, CDUP, OnEntry, MDTM, MKD, TransferFails, LookUp
  <2>3. ses'[s] = e
    BY <1>0, <2>2 DEF Go, SessionInv
  <2> QED
    BY <1>1, <1>2, <2>1, <2>2, <2>3 DEF Same
<1> QED
  BY <1>3, <1>4, <1>5

\* The control connection of a session, and what is left of it in the end.
LEMMA LifeCount ==
    ASSUME CountInv, SessionInv', MboxInv', NEW s \in Slots, FtpAccept(s) \/ EndOfTask(s)
    PROVE  CountInv'
<1> DEFINE r == ses[s]
           new == [NoSession EXCEPT !.pc = "read"]
<1>0. Good(r) /\ Own \in Nat /\ Files \in Nat /\ listed \in Nat
  BY DEF CountInv, SessionInv
<1>1. Files' = Files /\ listed' = listed
  BY DEF FtpAccept, EndOfTask, fsVars
<1>2. /\ NoSession \in SessionSet /\ new \in SessionSet
      /\ NoSession.pc = "free" /\ Held(NoSession) = 0 /\ ~NoSession.file
      /\ new.pc = "read" /\ Held(new) = 0 /\ ~new.file
  BY NewSession DEF Good, Held, Bit, NoSession
<1>3. CASE FtpAccept(s)
  <2>1. r = NoSession /\ Own' = Own + 1 /\ Go(s, new)
    <3>1. r = NoSession /\ Go(s, new) /\ netconns' = netconns + 1 /\ mbox' = mbox
      BY <1>0, <1>3 DEF FtpAccept, Good, Holds
    <3> QED
      BY <3>1, OwnOnly DEF CountInv
  <2> HIDE DEF r, new
  <2>2. /\ Bit(r.pc # "free") + Held(r) = 0 /\ Bit(new.pc # "free") + Held(new) = 1
        /\ Bit(r.file) = 0 /\ Bit(new.file) = 0
    BY <1>2, <2>1 DEF Bit
  <2>3. /\ Own' = Own + (1 - 0) /\ Files' \in Int /\ listed' \in Nat
        /\ Files' - listed' = (Files - listed) + (0 - 0)
    BY <1>0, <1>1, <2>1
  <2> QED
    BY <1>2, <2>1, <2>2, <2>3, Taken DEF r
<1>4. CASE EndOfTask(s)
  <2> DEFINE b == Cardinality(Mailbox(s))
  <2>1. /\ r.pc = "end" /\ Go(s, NoSession) /\ ~r.file
        /\ netconns' = ((netconns - 1) - Held(r)) - b /\ mbox' = mbox \ Mailbox(s)
    BY <1>0, <1>4 DEF EndOfTask, Good, Holds
  <2> HIDE DEF r
  <2>2. Held(r) \in Nat
    BY DEF Held, Bit
  <2>6. Cardinality(mbox') = Cardinality(mbox) - b /\ b \in Nat
    <3>1. IsFiniteSet(mbox) /\ mbox \cap Mailbox(s) = Mailbox(s) /\ Mailbox(s) \subseteq mbox
      BY MboxFinite DEF CountInv, Mailbox
    <3>2. b \in Nat
      BY <3>1, FS_Subset, FS_CardinalityType
    <3>3. Cardinality(mbox \ Mailbox(s)) = Cardinality(mbox) - Cardinality(mbox \cap Mailbox(s))
      BY <3>1, FS_Difference
    <3> QED
      BY <2>1, <3>1, <3>2, <3>3
  <2>7. netconns \in Int /\ Cardinality(mbox) \in Int
    BY MboxFinite DEF CountInv, MboxInv
  <2> HIDE DEF b
  <2>8. /\ netconns' = (netconns + (0 - (1 + Held(r)))) + (-b)
        /\ Cardinality(mbox') = Cardinality(mbox) + (-b)
        /\ 0 - (1 + Held(r)) \in Int /\ -b \in Int
    BY <2>1, <2>2, <2>6, <2>7
  <2>9. Own' = Own + (0 - (1 + Held(r)))
    BY <2>8, OwnStep DEF CountInv
  <2>3. /\ Bit(r.pc # "free") + Held(r) = 1 + Held(r)
        /\ Bit(NoSession.pc # "free") + Held(NoSession) = 0
        /\ Bit(r.file) = 0 /\ Bit(NoSession.file) = 0
    BY <1>2, <2>1 DEF Bit
  <2>4. /\ Own' = Own + (0 - (1 + Held(r))) /\ Files' \in Int /\ listed' \in Nat
        /\ Files' - listed' = (Files - listed) + (0 - 0)
    BY <1>0, <1>1, <2>9
  <2>5. 1 + Held(r) \in Nat
    BY <2>2
  <2> QED
    BY <1>2, <2>1, <2>3, <2>4, <2>5, Taken DEF r
<1> QED
  BY <1>3, <1>4

\* PASV takes a connection for a listener that the session has not had.
LEMMA PasvCount ==
    ASSUME CountInv, SessionInv', MboxInv', NEW s \in Slots, PASV(s) \/ PORT(s)
    PROVE  CountInv'
<1> DEFINE r == ses[s]
           e == ses'[s]
           l == Bit(r.listdataconn # "NULL")
           l1 == Bit(e.listdataconn # "NULL")
<1>0. Good(r) /\ Own \in Nat /\ Files \in Nat /\ listed \in Nat /\ r \in SessionSet
  BY DEF CountInv, SessionInv, Good
<1>1. Files' = Files /\ listed' = listed /\ r.pc = "read" /\ ~r.dataconn /\ ~r.file
  BY <1>0 DEF PASV, PORT, fsVars, LoggedIn, Command, Good, Holds
<1>2. e \in SessionSet /\ Good(e)
  BY DEF SessionInv
<1>3. Go(s, e) /\ e.pc = "read" /\ Own' = Own + (l1 - l)
  <2> DEFINE c == DataConClosed(r)
  <2>1. c \in SessionSet /\ c.pc = "read" /\ c.listdataconn = r.listdataconn
    BY <1>0, <1>1, ClosedFields
  <2>2. ses \in [Slots -> SessionSet]
    BY DEF CountInv, SessionInv
  <2>3. CASE PASV(s)
    <3>1. PICK k, mode, failed :
              /\ Go(s, [c EXCEPT !.listdataconn = k, !.data_conn_mode = mode, !.pasvFailed = failed])
              /\ netconns' = netconns + (Bit(k # "NULL") - l)
      BY <2>3 DEF PASV
    <3>5. mbox' = mbox
      BY <2>3 DEF PASV
    <3>4. Own' = Own + (Bit(k # "NULL") - l)
      <4>1. l \in Int /\ Bit(k # "NULL") \in Int /\ netconns \in Int
        BY DEF Bit, CountInv, MboxInv
      <4>2. netconns' = netconns + (Bit(k # "NULL") - l) /\ Bit(k # "NULL") - l \in Int
        BY <3>1, <4>1
      <4> QED
        BY <3>5, <4>2, OwnOnly DEF CountInv
    <3> HIDE DEF c
    <3>2. e = [c EXCEPT !.listdataconn = k, !.data_conn_mode = mode, !.pasvFailed = failed]
      BY <2>2, <3>1 DEF Go
    <3>3. e.listdataconn = k /\ e.pc = "read"
      BY <2>1, <3>2 DEF SessionSet
    <3> QED
      BY <3>1, <3>2, <3>3, <3>4
  <2>4. CASE PORT(s)
    <3>1. PICK mode : Go(s, [c EXCEPT !.data_conn_mode = mode])
      BY <2>4 DEF PORT
    <3>2. Own' = Own + 0
      <4>1. netconns' = netconns - 0 /\ netconns \in Int /\ mbox' = mbox
        BY <1>1, <2>4 DEF PORT, Bit, CountInv, MboxInv
      <4>2. netconns' = netconns + 0
        BY <4>1
      <4> QED
        BY <4>1, <4>2, OwnOnly DEF CountInv
    <3> HIDE DEF c
    <3>3. e = [c EXCEPT !.data_conn_mode = mode]
      BY <2>2, <3>1 DEF Go
    <3>4. e.listdataconn = r.listdataconn /\ e.pc = "read"
      BY <2>1, <3>3 DEF SessionSet
    <3>5. l1 = l /\ l \in Nat
      BY <3>4 DEF Bit
    <3> HIDE DEF l, l1
    <3>6. Own' = Own + (l1 - l)
      BY <1>0, <3>2, <3>5
    <3> QED
      BY <3>1, <3>3, <3>4, <3>6
  <2> QED
    BY <2>3, <2>4
<1>4. ~e.dataconn /\ ~e.file
  BY <1>2, <1>3 DEF Good, Holds
<1>5. l \in {0, 1} /\ l1 \in {0, 1}
  BY DEF Bit
<1>6. /\ Held(r) = l + 0 /\ Held(e) = l1 + 0 /\ Bit(r.pc # "free") = 1 /\ Bit(e.pc # "free") = 1
      /\ Bit(r.file) = 0 /\ Bit(e.file) = 0
  BY <1>1, <1>3, <1>4 DEF Held, Bit
<1> HIDE DEF l, l1, e, r
<1>7. /\ Bit(r.pc # "free") + Held(r) = 1 + l /\ Bit(e.pc # "free") + Held(e) = 1 + l1
      /\ 1 + l \in Nat /\ 1 + l1 \in Nat
  BY <1>5, <1>6
<1>8. /\ Own' = Own + ((1 + l1) - (1 + l)) /\ Files' \in Int /\ listed' \in Nat
      /\ Files' - listed' = (Files - listed) + (0 - 0)
  BY <1>0, <1>1, <1>3, <1>5
<1> QED
  BY <1>2, <1>3, <1>6, <1>7, <1>8, Taken DEF r

\* LIST, RETR and STOR take a data connection, and a file, and give them back.
LEMMA DataCount ==
    ASSUME CountInv, SessionInv', MboxInv', NEW s \in Slots,
           LIST(s) \/ ListEnds(s) \/ TransferStarts(s) \/ RetrEnds(s) \/ StorEnds(s)
    PROVE  CountInv'
<1> DEFINE r == ses[s]
           e == ses'[s]
           c == DataConClosed(r)
           l == Bit(r.listdataconn # "NULL")
<1>0. /\ Good(r) /\ Own \in Nat /\ Files \in Nat /\ listed \in Nat /\ r \in SessionSet
      /\ ses \in [Slots -> SessionSet]
  BY DEF CountInv, SessionInv, Good
<1>1. e \in SessionSet /\ Good(e)
  BY DEF SessionInv
<1>2. c \in SessionSet /\ c.listdataconn = r.listdataconn
  BY <1>0, ClosedFields
<1>3. l \in Nat
  BY DEF Bit
<1>4. ASSUME NEW x, Go(s, x) PROVE x = e /\ Go(s, e)
  BY <1>0, <1>4 DEF Go
<1>5. ASSUME NEW x \in SessionSet, Good(x), x.pc # "free", x.listdataconn = r.listdataconn
      PROVE  /\ Bit(x.pc # "free") + Held(x)
                = IF x.pc \in {"list", "retr", "stor"} THEN 1 + (l + 1) ELSE 1 + l
             /\ Bit(x.file) = IF x.pc \in {"retr", "stor"} THEN 1 ELSE 0
  BY <1>3, <1>5 DEF Bit, Held, Good, Holds
<1>6. CASE LIST(s)
  <2>1. e = [r EXCEPT !.pc = "list", !.dataconn = TRUE] /\ r.pc = "read" /\ Go(s, e)
    BY <1>4, <1>6 DEF LIST, LoggedIn, Command
  <2>2. Own' = Own + 1 /\ ((Files' = Files /\ listed' = listed)
                                      \/ (Files' = Files + 1 /\ listed' = listed + 1))
    BY <1>6, OwnData DEF LIST, f_opendir, fsVars, CountInv
  <2> HIDE DEF r, e, l
  <2>3. e.pc = "list" /\ e.listdataconn = r.listdataconn
    BY <1>0, <2>1 DEF SessionSet
  <2>4. Files' \in Int /\ listed' \in Nat /\ Own' \in Int
    BY <1>0, <2>2
  <2>5. /\ Bit(r.pc # "free") + Held(r) = 1 + l /\ Bit(e.pc # "free") + Held(e) = 1 + (l + 1)
        /\ Bit(r.file) = 0 /\ Bit(e.file) = 0
    <3>1. Bit(r.pc # "free") + Held(r) = 1 + l /\ Bit(r.file) = 0
      BY <1>0, <1>5, <2>1, <2>3
    <3>2. Bit(e.pc # "free") + Held(e) = 1 + (l + 1) /\ Bit(e.file) = 0
      BY <1>1, <1>5, <2>1, <2>3
    <3> QED
      BY <3>1, <3>2
  <2>7. Own' + (Bit(r.pc # "free") + Held(r)) = Own + (Bit(e.pc # "free") + Held(e))
    BY <1>0, <1>3, <2>2, <2>5
  <2>8. (Files' - listed') + Bit(r.file) = (Files - listed) + Bit(e.file)
    <3>1. Files' - listed' = Files - listed
      BY <1>0, <2>2
    <3> QED
      BY <1>0, <2>5, <3>1
  <2> QED
    BY <1>1, <2>1, <2>4, <2>7, <2>8, CountKept DEF r
<1>7. CASE ListEnds(s)
  <2>1. e = [c EXCEPT !.pc = "read"] /\ r.pc = "list" /\ Go(s, e)
    BY <1>4, <1>7 DEF ListEnds
  <2>2. Own' = Own - 1 /\ Files' = Files /\ listed' = listed
    <3>1. netconns' = netconns + (-1) /\ mbox' = mbox /\ Files' = Files /\ listed' = listed
      BY <1>7 DEF ListEnds, fsVars, CountInv, MboxInv
    <3>2. Own' = Own + (-1)
      BY <3>1, OwnOnly DEF CountInv
    <3> QED
      BY <1>0, <3>1, <3>2
  <2> HIDE DEF r, e, l, c
  <2>3. e.pc = "read" /\ e.listdataconn = r.listdataconn
    BY <1>2, <2>1 DEF SessionSet
  <2>4. Files' \in Int /\ listed' \in Nat /\ Own' \in Int
    BY <1>0, <2>2
  <2>5. /\ Bit(r.pc # "free") + Held(r) = 1 + (l + 1) /\ Bit(e.pc # "free") + Held(e) = 1 + l
        /\ Bit(r.file) = 0 /\ Bit(e.file) = 0
    <3>1. Bit(r.pc # "free") + Held(r) = 1 + (l + 1) /\ Bit(r.file) = 0
      BY <1>0, <1>5, <2>1, <2>3
    <3>2. Bit(e.pc # "free") + Held(e) = 1 + l /\ Bit(e.file) = 0
      BY <1>1, <1>5, <2>1, <2>3
    <3> QED
      BY <3>1, <3>2
  <2>7. Own' + (Bit(r.pc # "free") + Held(r)) = Own + (Bit(e.pc # "free") + Held(e))
    BY <1>0, <1>3, <2>2, <2>5
  <2>8. (Files' - listed') + Bit(r.file) = (Files - listed) + Bit(e.file)
    BY <1>0, <2>2, <2>5
  <2> QED
    BY <1>1, <2>1, <2>4, <2>7, <2>8, CountKept DEF r
<1>8. CASE TransferStarts(s)
  <2> DEFINE p(par) == path_build(r.path, par)
  <2>1. PICK par \in {"entry", "below", "absolute"}, pc \in {"retr", "stor"} :
            Go(s, [Looked(r, par) EXCEPT !.pc = pc, !.dataconn = TRUE, !.file = TRUE,
                                         !.path = p(par)])
    BY <1>8 DEF TransferStarts
  <2>2. /\ e = [Looked(r, par) EXCEPT !.pc = pc, !.dataconn = TRUE, !.file = TRUE,
                                      !.path = p(par)]
        /\ r.pc = "read" /\ Go(s, e)
    BY <1>4, <1>8, <2>1 DEF TransferStarts, LoggedIn, Command
  <2>3. Own' = Own + 1 /\ Files' = Files + 1 /\ listed' = listed
    BY <1>8, OwnData DEF TransferStarts, CountInv
  <2> DEFINE d == Looked(r, par)
  <2>9. Same(d, r)
    BY <1>0, LookedFields
  <2> HIDE DEF r, e, l, c, p, d
  <2>4. e.pc \in {"retr", "stor"} /\ e.listdataconn = r.listdataconn
    BY <2>1, <2>2, <2>9 DEF SessionSet, Same, d
  <2>5. Files' \in Int /\ listed' \in Nat /\ Own' \in Int
    BY <1>0, <2>3
  <2>6. /\ Bit(r.pc # "free") + Held(r) = 1 + l /\ Bit(e.pc # "free") + Held(e) = 1 + (l + 1)
        /\ Bit(r.file) = 0 /\ Bit(e.file) = 1
    <3>1. Bit(r.pc # "free") + Held(r) = 1 + l /\ Bit(r.file) = 0
      BY <1>0, <1>5, <2>2, <2>4
    <3>2. Bit(e.pc # "free") + Held(e) = 1 + (l + 1) /\ Bit(e.file) = 1
      BY <1>1, <1>5, <2>2, <2>4
    <3> QED
      BY <3>1, <3>2
  <2>7. Own' + (Bit(r.pc # "free") + Held(r)) = Own + (Bit(e.pc # "free") + Held(e))
    BY <1>0, <1>3, <2>3, <2>6
  <2>8. (Files' - listed') + Bit(r.file) = (Files - listed) + Bit(e.file)
    BY <1>0, <2>3, <2>6
  <2> QED
    BY <1>1, <2>2, <2>5, <2>7, <2>8, CountKept DEF r
<1>9. CASE RetrEnds(s) \/ StorEnds(s)
  <2>1. PICK p : Go(s, [c EXCEPT !.pc = "read", !.file = FALSE, !.path = p])
    BY <1>9 DEF RetrEnds, StorEnds, TransferEnds
  <2>2. /\ e = [c EXCEPT !.pc = "read", !.file = FALSE, !.path = p]
        /\ r.pc \in {"retr", "stor"} /\ Go(s, e)
    BY <1>4, <1>9, <2>1 DEF RetrEnds, StorEnds
  <2>3. Own' = Own - 1 /\ Files' = Files - 1 /\ listed' = listed
    <3>1. netconns' = netconns + (-1) /\ mbox' = mbox /\ Files' = Files - 1 /\ listed' = listed
      BY <1>9 DEF RetrEnds, StorEnds, TransferEnds, CountInv, MboxInv
    <3>2. Own' = Own + (-1)
      BY <3>1, OwnOnly DEF CountInv
    <3> QED
      BY <1>0, <3>1, <3>2
  <2> HIDE DEF r, e, l, c
  <2>4. e.pc = "read" /\ e.listdataconn = r.listdataconn
    BY <1>2, <2>2 DEF SessionSet
  <2>5. Files' \in Int /\ listed' \in Nat /\ Own' \in Int
    BY <1>0, <2>3
  <2>6. /\ Bit(r.pc # "free") + Held(r) = 1 + (l + 1) /\ Bit(e.pc # "free") + Held(e) = 1 + l
        /\ Bit(r.file) = 1 /\ Bit(e.file) = 0
    <3>1. Bit(r.pc # "free") + Held(r) = 1 + (l + 1) /\ Bit(r.file) = 1
      BY <1>0, <1>5, <2>2, <2>4
    <3>2. Bit(e.pc # "free") + Held(e) = 1 + l /\ Bit(e.file) = 0
      BY <1>1, <1>5, <2>2, <2>4
    <3> QED
      BY <3>1, <3>2
  <2>7. Own' + (Bit(r.pc # "free") + Held(r)) = Own + (Bit(e.pc # "free") + Held(e))
    BY <1>0, <1>3, <2>3, <2>6
  <2>8. (Files' - listed') + Bit(r.file) = (Files - listed) + Bit(e.file)
    BY <1>0, <2>3, <2>6
  <2> QED
    BY <1>1, <2>2, <2>5, <2>7, <2>8, CountKept DEF r
<1> QED
  BY <1>6, <1>7, <1>8, <1>9

\* A listing that fails may leave a directory open.
LEMMA ListFailsCount ==
    ASSUME CountInv, SessionInv', MboxInv', NEW s \in Slots, ListFails(s)
    PROVE  CountInv'
<1>1. /\ ses' = ses /\ Own' = Own
      /\ \/ Files' = Files /\ listed' = listed
         \/ Files' = Files + 1 /\ listed' = listed + 1
  BY DEF ListFails, f_opendir, netVars, fsVars, Own
<1>2. Active' = Active /\ Listening' = Listening /\ Connected' = Connected /\ Opened' = Opened
  BY <1>1 DEF Active, Listening, Connected, Opened
<1>3. Cardinality(Opened) \in Nat
  BY FtpAssumption, FS_Subset, FS_CardinalityType DEF Opened
<1>4. Files' = listed' + Cardinality(Opened') /\ Files' \in Nat /\ listed' \in Nat
  BY <1>1, <1>2, <1>3 DEF CountInv
<1> QED
  BY <1>1, <1>2, <1>4 DEF CountInv

\* What the counters say of the sessions always holds.
LEMMA CountAlways == FtpSpec => []CountInv
<1>1. FtpInit => CountInv
  <2> SUFFICES ASSUME FtpInit PROVE CountInv
    OBVIOUS
  <2>1. SessionInv /\ \A s \in Slots : ses[s] = NoSession
    BY NewSession DEF FtpInit, SessionInv, Good
  <2>2. Active = {} /\ Listening = {} /\ Connected = {} /\ Opened = {}
    BY <2>1 DEF Active, Listening, Connected, Opened, NoSession
  <2>3. MboxInv /\ Cardinality(mbox) = 0 /\ netconns = 0
    BY FS_EmptySet DEF MboxInv, FtpInit
  <2>4. Own = 0
    BY <2>3 DEF Own
  <2> QED
    BY <2>1, <2>2, <2>3, <2>4, FS_EmptySet DEF CountInv, FtpInit
<1>2. CountInv /\ [FtpNext]_ftpVars => CountInv'
  <2> SUFFICES ASSUME CountInv, [FtpNext]_ftpVars PROVE CountInv'
    OBVIOUS
  <2>1. SessionInv' /\ MboxInv'
    BY SessionStep, MboxStep DEF CountInv
  <2>2. CASE UNCHANGED ftpVars
    BY <2>1, <2>2 DEF ftpVars, netVars, fsVars, CountInv, Own, Active, Listening, Connected, Opened
  <2>3. ASSUME NEW s \in Slots, Session(s) \/ Client(s) PROVE CountInv'
    BY <2>1, <2>3, QuietCount, LifeCount, PasvCount, DataCount, ListFailsCount,
       ConnectCount
       DEF Session, Client
  <2> QED
    BY <2>2, <2>3 DEF FtpNext
<1> QED
  BY <1>1, <1>2, PTL DEF FtpSpec

\* For any number of sessions and connections, and whatever the clients send and
\* the network and the file system refuse: the connections in use are those the
\* sessions refer to and those in the mailboxes of their listeners, the entries of FatFs in use are those of their files and of
\* the directories that were listed, and a session at rest has neither a data
\* connection nor a file.
THEOREM NothingIsLeaked == FtpSpec => []NothingLeaked
<1>1. CountInv => NothingLeaked
  <2> SUFFICES ASSUME CountInv PROVE NothingLeaked
    OBVIOUS
  <2> DEFINE a == Cardinality(Active)   l == Cardinality(Listening)   c == Cardinality(Connected)
             b == Cardinality(mbox)
  <2>1. {w \in mbox : ses[w[1]].listdataconn = "listening"} = mbox
    BY DEF CountInv, MboxInv
  <2>2. netconns \in Int /\ b \in Nat /\ netconns - b = (a + l) + c
    BY MboxFinite DEF CountInv, MboxInv, Own
  <2>3. IsFiniteSet(Active) /\ IsFiniteSet(Listening) /\ IsFiniteSet(Connected)
    BY FtpAssumption, FS_Subset DEF Active, Listening, Connected
  <2>4. a \in Nat /\ l \in Nat /\ c \in Nat
    BY <2>3, FS_CardinalityType
  <2> HIDE DEF a, l, c, b
  <2>5. netconns = ((a + l) + c) + b
    BY <2>2, <2>4
  <2> QED
    BY <2>1, <2>5 DEF CountInv, SessionInv, Good, Holds, NothingLeaked, Active, Listening,
                      Connected, Opened, a, l, c, b
<1> QED
  BY <1>1, CountAlways, PTL
=============================================================================
