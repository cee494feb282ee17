SPECIFICATION AuthSpec
CONSTANTS
    Users = {u1, u2}
    Admins = {admin}
    Nil = Nil
    MaxTokens = 2
    MaxManagers = 2
INVARIANTS AuthTypeOK ManagersCarryTheToken LoggedInUserOwnsTheToken
PROPERTIES DroppedTokensAreNotSent
