---------------------------------- MODULE Git ----------------------------------
(***************************************************************************)
(* Reading a repository (internal/git/client.go): which commit a ref names *)
(* and which contents a file has there.                                    *)
(*                                                                         *)
(* A repository r has commits (by hash), each the function from its paths  *)
(* to their contents, a working tree of the same form, and revisions: what *)
(* the library finds for a name, given with or without a prefix.           *)
(***************************************************************************)
EXTENDS Naturals, FiniteSetsExt, SequencesExt

NoSuch         == [ok |-> FALSE]
Found(content) == [ok |-> TRUE, value |-> content]

At(tree, path) == IF path \in DOMAIN tree THEN Found(tree[path]) ELSE NoSuch

\* A ref is a word with a length; a revision of the library is a sequence of words.
Ref(word, length) == [word |-> word, length |-> length]

RefPrefixes == << << >>, << "refs/heads/" >>, << "refs/tags/" >> >>

\* A ref that is long enough to be a hash is looked up as one first.
resolveRef(r, ref) ==
    LET names == [i \in DOMAIN RefPrefixes |-> Append(RefPrefixes[i], ref.word)]
        known == {i \in DOMAIN names : names[i] \in DOMAIN r.revisions}
    IN  IF ref.length >= 7 /\ ref.word \in DOMAIN r.commits THEN Found(r.commits[ref.word])
        ELSE IF known = {} \/ r.revisions[names[Min(known)]] \notin DOMAIN r.commits THEN NoSuch
        ELSE Found(r.commits[r.revisions[names[Min(known)]]])

NoRefGiven == Ref("", 0)

\* Without a ref it is the working tree that is read, and HEAD whose files are listed.
ReadFileAt(r, ref, path) ==
    IF ref = NoRefGiven THEN At(r.worktree, path)
    ELSE LET commit == resolveRef(r, ref)
         IN  IF commit.ok THEN At(commit.value, path) ELSE NoSuch

ListFiles(r, ref) ==
    LET commit == resolveRef(r, IF ref = NoRefGiven THEN Ref("HEAD", 4) ELSE ref)
    IN  IF commit.ok THEN Found(DOMAIN commit.value) ELSE NoSuch
================================================================================
