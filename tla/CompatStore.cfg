SPECIFICATION Spec
CONSTANTS
  Children = {a, b}
  Null = Null
  MaxEdits = 3
  MaxCalls = 1
INVARIANTS
  StatusesTrue
  ErrorsOnlyHide
  DeletedAreDeleted
  AnswersTrue
  ListsTrue
