--------------------------- MODULE LocationHistory ---------------------------
(***************************************************************************)
(* The history of remote folders (src/remoteLocationHistory.ts), as the    *)
(* activation of a window writes it (src/extension.ts) and the host tree   *)
(* shows and prunes it (src/hostTreeView.ts).                              *)
(*                                                                         *)
(* Every window reads the stored history once, edits its own copy and      *)
(* hands the whole copy to globalState.update(), which stores what the     *)
(* copy is when the write takes place.  One host's folders are enough: the *)
(* record of all hosts is read and written as a whole.                     *)
(***************************************************************************)
EXTENDS Sequences, Lists

CONSTANTS Windows, Folders

VARIABLES
  stored,    \* the folders in the global state, newest first
  window,    \* window[w]: what window w is doing
  copy,      \* copy[w]: remoteLocationHistory of window w
  writing,   \* the windows with an update() under way
  loading,   \* the windows whose tree is being read again
  tree,      \* tree[w]: the folders its tree shows
  unrefreshed, \* the windows in which a write failed: nothing refreshes their tree
  wanted,    \* history: the folders opened and not removed, newest first
  intact     \* history: windows did not overlap, and no write failed or was lost

historyVars == <<stored, window, copy, writing, loading, tree, unrefreshed, wanted, intact>>

HistoryInit ==
  /\ stored = <<>>
  /\ window = [w \in Windows |-> "closed"]
  /\ copy = [w \in Windows |-> <<>>]
  /\ writing = {}
  /\ loading = {}
  /\ tree = [w \in Windows |-> <<>>]
  /\ unrefreshed = {}
  /\ wanted = <<>>
  /\ intact = TRUE

----------------------------------------------------------------------------
Contains(list, f) == \E i \in DOMAIN list : list[i] = f

\* (Mutant) Line 22 is missing.
WithAgain(list, f) == <<f>> \o list

With(list, f) == IF Contains(list, f) THEN list ELSE <<f>> \o list

Without(list, f) == Kept(list, Folders \ {f})

Alone(w) == \A v \in Windows : window[v] # "closed" => v = w

\* A window that opens no remote folder: the history is read (line 12), and the
\* tree that the activation creates reads it.
StartLocal(w) ==
  /\ window[w] = "closed"
  /\ window' = [window EXCEPT ![w] = "open"]
  /\ copy' = [copy EXCEPT ![w] = stored]
  /\ loading' = loading \cup {w}
  /\ intact' = (intact /\ Alone(w))
  /\ UNCHANGED <<stored, writing, tree, unrefreshed, wanted>>

\* A window that opens remote folder f: addLocation() is awaited before the
\* tree is created, if it has anything to write (lines 19-28).
StartRemote(w, f) ==
  /\ window[w] = "closed"
  /\ copy' = [copy EXCEPT ![w] = With(stored, f)]
  /\ IF Contains(stored, f)
     THEN /\ window' = [window EXCEPT ![w] = "open"]
          /\ loading' = loading \cup {w}
          /\ UNCHANGED writing
     ELSE /\ window' = [window EXCEPT ![w] = "adding"]
          /\ writing' = writing \cup {w}
          /\ UNCHANGED loading
  /\ wanted' = With(wanted, f)
  /\ intact' = (intact /\ Alone(w))
  /\ UNCHANGED <<stored, tree, unrefreshed>>

\* getChildren() reads the copy once the configuration has been read.
LoadTree(w) ==
  /\ w \in loading
  /\ tree' = [tree EXCEPT ![w] = copy[w]]
  /\ loading' = loading \ {w}
  /\ unrefreshed' = unrefreshed \ {w}
  /\ UNCHANGED <<stored, window, copy, writing, wanted, intact>>

\* The refresh command, or a change to the configuration.
Refresh(w) ==
  /\ window[w] = "open"
  /\ loading' = loading \cup {w}
  /\ UNCHANGED <<stored, window, copy, writing, tree, unrefreshed, wanted, intact>>

\* (Mutant) Line 33 is missing: the copy keeps the folder.
ForgetRemoval(w, f) ==
  /\ window[w] = "open"
  /\ Contains(tree[w], f)
  /\ writing' = writing \cup {w}
  /\ wanted' = Without(wanted, f)
  /\ UNCHANGED <<stored, window, copy, loading, tree, unrefreshed, intact>>

\* removeLocation() of a folder that the tree shows (lines 30-36).
Remove(w, f) ==
  /\ window[w] = "open"
  /\ Contains(tree[w], f)
  /\ copy' = [copy EXCEPT ![w] = Without(copy[w], f)]
  /\ writing' = writing \cup {w}
  /\ wanted' = Without(wanted, f)
  /\ UNCHANGED <<stored, window, loading, tree, unrefreshed, intact>>

\* (Mutant) deleteHostLocation() does not refresh.
WriteOnly(w) ==
  /\ w \in writing
  /\ stored' = copy[w]
  /\ writing' = writing \ {w}
  /\ loading' = IF window[w] = "adding" THEN loading \cup {w} ELSE loading
  /\ window' = [window EXCEPT ![w] = "open"]
  /\ UNCHANGED <<copy, tree, unrefreshed, wanted, intact>>

\* The write takes place: the activation goes on to create the tree, or
\* deleteHostLocation() refreshes it.
Write(w) ==
  /\ w \in writing
  /\ stored' = copy[w]
  /\ writing' = writing \ {w}
  /\ loading' = loading \cup {w}
  /\ window' = [window EXCEPT ![w] = "open"]
  /\ UNCHANGED <<copy, tree, unrefreshed, wanted, intact>>

\* update() is rejected: the activation ends without a tree, or the tree is not
\* refreshed.  The copy keeps the change all the same.
WriteFails(w) ==
  /\ w \in writing
  /\ writing' = writing \ {w}
  /\ window' = [window EXCEPT ![w] = IF window[w] = "adding" THEN "broken" ELSE "open"]
  /\ unrefreshed' = unrefreshed \cup {w}
  /\ intact' = FALSE
  /\ UNCHANGED <<stored, copy, loading, tree, wanted>>

\* The window is closed, and an update under way with it.
CloseWindow(w) ==
  /\ window[w] # "closed"
  /\ window' = [window EXCEPT ![w] = "closed"]
  /\ writing' = writing \ {w}
  /\ loading' = loading \ {w}
  /\ unrefreshed' = unrefreshed \ {w}
  /\ tree' = [tree EXCEPT ![w] = <<>>]
  /\ intact' = (intact /\ w \notin writing)
  /\ UNCHANGED <<stored, copy, wanted>>

WindowStep(w) ==
  \/ StartLocal(w) \/ LoadTree(w) \/ Refresh(w)
  \/ Write(w) \/ WriteFails(w) \/ CloseWindow(w)
  \/ \E f \in Folders : StartRemote(w, f) \/ Remove(w, f)

HistoryNext == \E w \in Windows : WindowStep(w)

HistorySpec == HistoryInit /\ [][HistoryNext]_historyVars

----------------------------------------------------------------------------
\* Windows that come one after the other keep the history: what is stored is
\* what was opened and not removed, in that order, across any number of
\* windows (lines 12, 19-36).  Windows that overlap overwrite each other's.
HistoryKept == intact /\ writing = {} => stored = wanted

\* However windows overlap, fail and close, no list holds a folder twice
\* (lines 20-24).
NoFolderTwice ==
  \A list \in {stored} \cup {copy[w] : w \in Windows} \cup {tree[w] : w \in Windows} :
    \A i, j \in DOMAIN list : list[i] = list[j] => i = j

\* A tree that is at rest shows its window's copy: no removal is left shown
\* (lines 91-94 of hostTreeView.ts), unless its write failed.
TreeFollows ==
  \A w \in Windows : window[w] = "open" /\ w \notin writing \cup loading \cup unrefreshed =>
    tree[w] = copy[w]

\* The inductive invariant: the one window there is has the wanted history.
HistoryInv ==
  /\ \A w \in writing : window[w] \in {"adding", "open"}
  /\ \A w \in Windows : window[w] = "adding" => w \in writing
  /\ \A w \in Windows : intact /\ window[w] # "closed" => Alone(w) /\ copy[w] = wanted
  /\ \A w \in Windows : window[w] = "broken" => ~intact
  /\ HistoryKept
  /\ TreeFollows
=============================================================================
