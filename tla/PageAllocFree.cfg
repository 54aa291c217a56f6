SPECIFICATION PageSpec
CONSTANTS
  InitArgs = {1, 2, 6, 262145}
  MaxRequest = 7
  Strays = {1, 1073741824}
  Pointers = {p1, p2, p3}
INVARIANT BlocksStayTaken
