SPECIFICATION Spec
CONSTANTS
  Children = {a1, a2}
  MaxInputs = 2
  MaxRestarts = 1
  Secrets = {a1, a2, a3}
  NoSecret = none
  MaxCleanups = 1
  Programs = {a1, a2}
  NoProgram = nobody
  MaxVersion = 3
  MaxReplaced = 2
  MaxModes = 2
  Computers = {a1, a2}
  Parts = {codex, data}
  Probed = {codex}
  MaxMishaps = 2
  Openers = {c1, c2}
  Removers = {r}
  Panes = {a1, a2}
SYMMETRY Alike
INVARIANTS
  
  SecretsAreKnown
  UpdatesAreSafe
  InstallIsSound
  UseIsExclusive
\* The bounds on what is opened, saved and published end every behaviour.
CHECK_DEADLOCK FALSE
