CONSTANT AnswerLen = 3
SPECIFICATION Spec
INVARIANTS CallbackOnLiveMembers
