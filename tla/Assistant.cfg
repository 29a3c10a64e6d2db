SPECIFICATION Either
CONSTANTS
  Operators = {ops}
  Normies = {norm}
  Models = {m1, m2}
  Agents = {a1}
  First = First
  Nobody = Nobody
  Requests = {p1}
  MaxChunks = 1
  MaxListed = 1
  Calls = {c1, c2}
  Keys = {assistant, banner}
  Assistant = assistant
  Banner = banner
  MaxPage = 2
  MaxChanges = 3
  MaxNow = 1
INVARIANTS NormiesKeepToAssistant RefusedForAReason CreditIsNotAhead PagesMissNothing
PROPERTIES EndIsTold NothingOpenForNobody
