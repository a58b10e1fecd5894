------------------------------ MODULE MCViews -------------------------------
\* The three views over their backends.  They share no state: a behaviour is of one of
\* them, and the other two stand still.
EXTENDS AiView, TerminalView, HtmlView, TLC

VARIABLE view

\* What a read of the PTY may give: characters that count once or twice in UTF-16.
MCChunks == {<<1, 2>>, <<2, 2>>}

Mix(chunks, mounts, cuts, shells, restarts, sizes) ==
  [chunks |-> chunks, mounts |-> mounts, cuts |-> cuts, shells |-> shells,
   restarts |-> restarts, sizes |-> sizes]

\* Output with two views and a `shell`; with drops; with restarts; a restart
\* under a `shell`; resizes.
MCBudgets == {Mix(3, 2, 0, 1, 0, 0), Mix(5, 1, 1, 1, 0, 0), Mix(3, 1, 1, 0, 1, 0),
              Mix(2, 1, 0, 1, 1, 0),
              Mix(0, 2, 0, 0, 1, 2), Mix(0, 1, 1, 0, 0, 3)}

AiMix(sends, cuts, calls, stops) ==
  [sends |-> sends, cuts |-> cuts, calls |-> calls, stops |-> stops]

\* Two sends behind another client's, over drops and remounts; another tab; two tool
\* calls; interrupts, with a drop or with two sends.
MCAiBudgets == {AiMix({"s1", "s2", "ot"}, 2, {}, 0), AiMix({"s1", "tw", "ot"}, 1, {}, 0),
                AiMix({"s1", "ot"}, 1, {"c1", "c2"}, 0), AiMix({"s1", "ot"}, 1, {"c1"}, 1),
                AiMix({"s1", "s2", "ot"}, 0, {"c1"}, 1)}

MCInit ==
  /\ AiInit /\ TermInit /\ HtmlInit
  /\ view \in {"ai", "terminal", "html"}
  /\ view # "ai" => aiCurrent = NoSend /\ aiLeft = AiMix({"s1", "s2", "ot"}, 2, {}, 0)
  /\ view # "terminal" => termPty = NoPty /\ termLeft = Mix(0, 1, 1, 0, 0, 3)

MCNext ==
  /\ \/ view = "ai" /\ AiNext /\ UNCHANGED <<termVars, htmlVars>>
     \/ view = "terminal" /\ TermNext /\ UNCHANGED <<aiVars, htmlVars>>
     \/ view = "html" /\ HtmlNext /\ UNCHANGED <<aiVars, termVars>>
  /\ UNCHANGED view

MCSpec == MCInit /\ [][MCNext]_<<view, aiVars, termVars, htmlVars>>

MCSymmetry == Permutations(View)
=============================================================================
