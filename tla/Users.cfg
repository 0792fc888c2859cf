\* Three racing requests that register, change and sign in two users.
CONSTANTS
  Username <- MCUsername
  FullName <- MCFullName
  Email <- MCEmail
  Key = {"k1", "k2"}
  BindingAccepts <- MCBindingAccepts
  ValidatorAccepts <- MCValidatorAccepts
  CreateArgs <- MCCreateArgs
  UpdateArgs <- MCUpdateArgs
  LoginArgs <- MCLoginArgs
  Req = {r1, r2, r3}
  Null = Null
  Never = Never
SPECIFICATION Spec
SYMMETRY Symmetry
CHECK_DEADLOCK FALSE
INVARIANTS
  TypeOK
  NoLostUpdate
  SignInIsCurrent
  PasswordStamp
  OneRegistration
