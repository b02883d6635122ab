---------------------------- MODULE FileServices ------------------------------
(***************************************************************************)
(* The services that move files between guest and Mac, side by side: the     *)
(* server of drops, which this module extends, and instances of the mount    *)
(* with its calls, names and listings, and of RPC streams that cross.  A     *)
(* behaviour belongs to one of the models and leaves the others alone, so    *)
(* that one run checks all of them.                                         *)
(***************************************************************************)
EXTENDS DropServer, TLC

VARIABLES
  study,     \* the model this behaviour belongs to
  st, last, inbound, gate, controls, sock, error, refs, fd,   \* FileSession
  host, unborn, nodes, next, known, owed, of, mount_req, astray,   \* DropNames
  call_session, generation, call_users, owned, state, acceptor, call, waits, ring, sent,   \* DropCalls
  items, offset, asked, page, listed   \* DropListing

rpcVars == <<st, last, inbound, gate, controls, sock, error, refs, fd>>
mountVars == <<host, unborn, nodes, next, known, owed, of, mount_req, astray>>
callVars == <<call_session, generation, call_users, owned, state, acceptor, call, waits, ring, sent>>
listVars == <<items, offset, asked, page, listed>>
allVars == <<study, rpcVars, mountVars, callVars, vars, listVars>>

\* The files of one drop: a file, a folder with a file, or two folders.
Flat == <<"a">> :> "f1"
OneFolder == (<<"a">> :> "d1") @@ (<<"a", "a">> :> "f1")
TwoFolders == (<<"a">> :> "d1") @@ (<<"b">> :> "d2") @@ (<<"a", "a">> :> "f1")

\* A stream of each side, refused by the other.
Streams == INSTANCE FileSession WITH
     Guest <- {1}, Host <- {2}, DataMax <- 0, MaxInbound <- 0,
     Socket <- 1, MaxControl <- 2, MayFail <- FALSE
\* Requests one after another in two folders.
Renames == INSTANCE DropNames WITH
     Workers <- {1}, Names <- {"a", "b"}, Dirs <- {"d1", "d2"},
     Files <- {"f1"}, Tree <- TwoFolders, PathMax <- 2, MaxIds <- 3, MaxLookups <- 2,
     MacReplaces <- FALSE, req <- mount_req
\* Two workers and a folder.
Racing == INSTANCE DropNames WITH
     Workers <- {1, 2}, Names <- {"a", "b"}, Dirs <- {"d1"},
     Files <- {"f1"}, Tree <- OneFolder, PathMax <- 2, MaxIds <- 2, MaxLookups <- 2,
     MacReplaces <- FALSE, req <- mount_req
\* Two workers while the Mac puts a folder in the place of a file.
Replaced == INSTANCE DropNames WITH
     Workers <- {1, 2}, Names <- {"a"}, Dirs <- {"d1"},
     Files <- {"f1"}, Tree <- Flat, PathMax <- 1, MaxIds <- 3, MaxLookups <- 3, MacReplaces <- TRUE,
     req <- mount_req
\* Three requests over two sessions.
Calls == INSTANCE DropCalls WITH
     Plain <- {1, 2}, Locks <- {3}, Sessions <- 2, Ring <- 3,
     session <- call_session, users <- call_users
\* A directory of up to three pages, any of whose items may be hidden.
Listing == INSTANCE DropListing WITH
     Length <- 6, Page <- 2, Buffer <- {1, 2, 3, 4}

StudyInit ==
  /\ study \in {"Streams", "Renames", "Racing", "Replaced", "Calls", "Server", "Listing"}
  /\ Streams!Init
  /\ IF study = "Racing" THEN Racing!Init ELSE IF study = "Replaced" THEN Replaced!Init ELSE Renames!Init
  /\ Calls!Init
  /\ Init
  /\ Listing!Init /\ (study = "Listing" \/ \A i \in DOMAIN items : items[i])

\* A step of the model under study; the others keep their initial states.
StudyNext ==
  \/ study = "Streams" /\ Streams!Next /\ UNCHANGED <<study, mountVars, callVars, vars, listVars>>
  \/ study = "Renames" /\ Renames!Next /\ UNCHANGED <<study, rpcVars, callVars, vars, listVars>>
  \/ study = "Racing" /\ Racing!Next /\ UNCHANGED <<study, rpcVars, callVars, vars, listVars>>
  \/ study = "Replaced" /\ Replaced!Next /\ UNCHANGED <<study, rpcVars, callVars, vars, listVars>>
  \/ study = "Calls" /\ Calls!Next /\ UNCHANGED <<study, rpcVars, mountVars, vars, listVars>>
  \/ study = "Server" /\ Next /\ UNCHANGED <<study, rpcVars, mountVars, callVars, listVars>>
  \/ study = "Listing" /\ Listing!Next /\ UNCHANGED <<study, rpcVars, mountVars, callVars, vars>>

StudySpec == StudyInit /\ [][StudyNext]_allVars


\* Streams that the two sides open and refuse at once, calls of the mount over two
\* sessions of the host, and sessions of the server that follow each other keep the
\* protocol, hold what they use and give it up at the end.
SessionsEnd ==
  /\ study = "Streams" => Streams!TypeOK /\ Streams!SessionKept /\ Streams!NoProtocolError
  /\ study = "Calls" => Calls!TypeOK /\ Calls!SessionsHeld
  /\ study = "Server" => TypeOK /\ SessionsLeaveNothing

================================================================================
