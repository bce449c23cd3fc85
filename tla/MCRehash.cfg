SPECIFICATION Spec
CONSTANTS
  admin = admin
  chanfix = chanfix
  jupes = jupes
  local = local
  NULL = NULL
  Mods <- Modules4
  Decls <- Declarations
  ModOf <- Module
  NameOf <- Name
  CommandsOf <- Command
  Static <- Inits
  Stubborn = {admin}
  Files <- Configs
INVARIANTS RegistrationsSound EveryoneIsListed FollowsTheFile
PROPERTIES OrderAndIdsKept
