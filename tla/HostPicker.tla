----------------------------- MODULE HostPicker -----------------------------
(***************************************************************************)
(* The choice of a host (promptForHost in src/commands.ts): the hosts of   *)
(* the ssh configuration in a quick pick, to which what is typed is added. *)
(*                                                                         *)
(* The quick pick is shown by another process than the one that runs the   *)
(* extension: what is typed is told to the extension, and the items it     *)
(* sets are shown, each a little later.                                    *)
(***************************************************************************)
EXTENDS Sequences, Lists

CONSTANTS
  HostLists,    \* the lists of hosts that the configuration may hold
  Texts,        \* what may be typed; Blank is nothing
  Within        \* the pairs <<text, label>> for which text occurs in label

\* Nothing typed, and what a label may be.
Blank == ""
Labels == STRING

ASSUME PickerAssumption ==
  Texts \subseteq Labels /\ Blank \in Labels /\ \A hosts \in HostLists : hosts \in Seq(Labels)

VARIABLES
  configuredHosts,
  prompt,     \* "loading", "input" (the plain box), "pick", "closed"
  typed,      \* what stands in the input
  value,      \* what the extension has heard of it
  items,      \* quickPick.items, as the extension has set them
  shown,      \* the items that are shown
  chosen      \* what the promise has resolved with

NoHost == "undefined"

pickerVars == <<configuredHosts, prompt, typed, value, items, shown, chosen>>

PickerInit ==
  /\ configuredHosts = <<>>
  /\ prompt = "loading"
  /\ typed = Blank /\ value = Blank
  /\ items = <<>> /\ shown = <<>>
  /\ chosen = NoHost

----------------------------------------------------------------------------
IsConfigured(text) == \E i \in DOMAIN configuredHosts : configuredHosts[i] = text

\* The quick pick shows the items that the input occurs in, and first the one
\* that is the input.
Visible(list) ==
  IF typed = Blank THEN list
  ELSE Kept(list, {typed}) \o Kept(list, {pair[2] : pair \in {p \in Within : p[1] = typed}})

\* loadFromFS() succeeds or fails: without hosts a plain box is shown (lines
\* 25-36), else the quick pick (38-44, 64).
LoadHosts ==
  /\ prompt = "loading"
  /\ configuredHosts' \in HostLists \cup {<<>>}
  /\ prompt' = IF configuredHosts' = <<>> THEN "input" ELSE "pick"
  /\ items' = configuredHosts' /\ shown' = configuredHosts'
  /\ UNCHANGED <<typed, value, chosen>>

EnterHost ==
  /\ prompt = "input"
  /\ \E text \in Texts \cup {NoHost} : chosen' = text
  /\ prompt' = "closed"
  /\ UNCHANGED <<configuredHosts, typed, value, items, shown>>

Type ==
  /\ prompt = "pick"
  /\ \E text \in Texts : typed' = text
  /\ UNCHANGED <<configuredHosts, prompt, value, items, shown, chosen>>

\* (Mutant) What is typed is added only if it occurs in no host.
ItemsIfNew(text) ==
  IF text # Blank /\ ~\E i \in DOMAIN configuredHosts : <<text, configuredHosts[i]>> \in Within
  THEN <<text>> \o configuredHosts ELSE configuredHosts

\* Lines 47-50
ItemsFor(text) ==
  IF text # Blank /\ ~IsConfigured(text) THEN <<text>> \o configuredHosts ELSE configuredHosts

\* onDidChangeValue
HearValue ==
  /\ prompt = "pick" /\ value # typed
  /\ value' = typed
  /\ items' = ItemsFor(typed)
  /\ UNCHANGED <<configuredHosts, prompt, typed, shown, chosen>>

ShowItems ==
  /\ prompt = "pick" /\ shown # items
  /\ shown' = items
  /\ UNCHANGED <<configuredHosts, prompt, typed, value, items, chosen>>

\* What Enter takes: the first item that is visible, or what is typed (line 54).
Picked == IF Visible(shown) # <<>> THEN Head(Visible(shown)) ELSE typed

\* onDidAccept for the first item, or another to which the selection was moved
\* (lines 53-57); nothing typed and nothing there is undefined.
Accept ==
  /\ prompt = "pick"
  /\ \/ chosen' = IF Picked = Blank THEN NoHost ELSE Picked
     \/ \E i \in DOMAIN Visible(shown) : chosen' = Visible(shown)[i]
  /\ prompt' = "closed"
  /\ UNCHANGED <<configuredHosts, typed, value, items, shown>>

\* onDidHide without a choice
HidePicker ==
  /\ prompt = "pick"
  /\ prompt' = "closed"
  /\ UNCHANGED <<configuredHosts, typed, value, items, shown, chosen>>

PickerNext ==
  LoadHosts \/ EnterHost \/ Type \/ HearValue \/ ShowItems \/ Accept \/ HidePicker

PickerSpec == PickerInit /\ [][PickerNext]_pickerVars

----------------------------------------------------------------------------
\* "typing a host and pressing enter keeps working" (lines 19-23): once the
\* extension has heard the input and its items are shown, Enter takes what is
\* typed and nothing that it only occurs in.  Before that it may take the host
\* of another input.
EnterTakesTyped ==
  prompt = "pick" /\ typed # Blank /\ value = typed /\ shown = items => Picked = typed

\* The inductive invariant: the items are those for what the extension has heard.
PickerInv ==
  /\ prompt = "loading" => typed = Blank /\ value = Blank
  /\ prompt = "pick" => items = ItemsFor(value)
=============================================================================
